---- MODULE Spec2Model ----
(***************************************************************************)
(* NeuroNudge: the per-learner Q-table recommender (types/src/engine.rs)   *)
(* and the simulation driver that exercises it (engine/src/simulate.rs).   *)
(*                                                                         *)
(* f32 values are modelled as fixed-point integers in units of 1/Scale,    *)
(* every multiplication and division rounding to the nearest unit.  One    *)
(* learner is modelled: the driver's learners own disjoint Q-tables and    *)
(* are processed one after the other.                                      *)
(***************************************************************************)
EXTENDS Integers, Sequences, FiniteSets, TLC

\* Resolution of the fixed-point image of f32.
Scale == 10000

\* ------------------------------------------------------------ bounds
\* Iterations of the general simulation run (the code runs 250).
MaxIterations == 2
\* Questions per lesson (the catalog's lessons hold five and more).
NumQuestions == 2
\* Iterations of the scripted perfect run.
PerfectIterations == 8
\* Iterations of the scripted always-wrong run.
WrongIterations == 11
\* Attempts of each question in the scripted always-wrong run.
WrongAttempts == 2

\* Levels attempted, from VeryEasy up, in the run of the decaying strategy.
DecayLevelCount == 2
\* Updates of the run of the decaying strategy.
DecayIterations == 26
\* Updates of the run that attempts VeryEasy once and never again.
UntouchedIterations == 12
\* Iterations of the run of the decaying strategy on a learned table.
ReinforceIterations == 2
\* Iterations of the run that takes every time of the band.
RewardIterations == 1
\* Draws of the retry loop of one question after which the model lets only
\* a correct draw follow.
MaxAttempts == 3
\* Iterations of the run that is followed up to Grandmaster and beyond.
EventualIterations == 9

\* Learners of the driver's learner-id list (the code registers six).
LearnerCount == 2
\* Plans a learner's history holds at most.
MaxPlans == 3
\* Attention spans are 0, 5, ... up to five times this many.
AttentionSpanSteps == 3
\* Simulations after which main is given no further strategy number.
MaxSimulations == 2

\* ------------------------------------------------------------ arithmetic
\* a / b rounded to the nearest integer, b > 0.
RoundDiv(a, b) == (a + (b \div 2)) \div b
\* Product and quotient of two fixed-point numbers.
Mul(a, b) == RoundDiv(a * b, Scale)
Div(a, b) == RoundDiv(a * Scale, b)
\* An integer count converted with `as f32`.
F32(n) == n * Scale
\* The quotient of two integer counts converted with `as f32`:
\* Div(F32(a), F32(b)).
Ratio(a, b) == RoundDiv(a * Scale, b)
\* A decimal literal num/den.
Lit(num, den) == RoundDiv(num * Scale, den)
Min(a, b) == IF a < b THEN a ELSE b
Max(a, b) == IF a > b THEN a ELSE b

\* Option<T>: None is the empty sequence, Some(x) the one-element sequence.
None == << >>
Some(x) == << x >>

\* ------------------------------------------------------------ content
\* The array `difficulties` of choose_next_difficulty; index i of the code
\* is position i + 1 here.
difficulties ==
    << "VeryEasy", "Easy", "Medium", "Hard",
       "VeryHard", "Expert", "Master", "Grandmaster" >>
DifficultyLevel == { difficulties[i] : i \in 1..Len(difficulties) }
\* difficulties.iter().position(|d| d == level).unwrap_or(0)
IndexOf(level) ==
    IF level \in DifficultyLevel
    THEN (CHOOSE i \in 1..Len(difficulties) : difficulties[i] = level) - 1
    ELSE 0

\* generate_shapes_lessons: one lesson per difficulty, in ascending order.
\* A lesson is its position in that vector (its identity); its difficulty
\* and its questions are read from it.
Lesson == 0..(Len(difficulties) - 1)
\* A ninth lesson, of a module with two lessons of the second difficulty.
SecondEasyLesson == Len(difficulties)
get_difficulty_level(lesson) ==
    IF lesson = SecondEasyLesson THEN difficulties[2]
    ELSE difficulties[lesson + 1]
get_questions(lesson) == 1..NumQuestions

\* Mastery variants and the strategies of the engine.
Mastery == { "None", "Basic", "Competent", "Full" }
Strategy == { "Strategy1", "Strategy2", "Strategy3" }

BASIC_MASTERY_THRESHOLD == Lit(5, 10)
COMPETENT_MASTERY_THRESHOLD == Lit(7, 10)
FULL_MASTERY_THRESHOLD == Lit(8, 10)
discount_factor == Lit(25, 100)
learning_rate == Lit(75, 100)
epsilon == Lit(3, 10)

\* ------------------------------------------------------------ lesson results
\* LessonResult::get_total_incorrect_attempts / get_total_hints_requested:
\* the sums over the attempted questions (hints_requested None adds nothing).
RECURSIVE SumIncorrect(_)
SumIncorrect(attempts) ==
    IF attempts = << >> THEN 0
    ELSE Head(attempts).incorrect_attempts + SumIncorrect(Tail(attempts))
RECURSIVE SumHints(_)
SumHints(attempts) ==
    IF attempts = << >> THEN 0
    ELSE (IF Head(attempts).hints_requested = None THEN 0
          ELSE Head(attempts).hints_requested[1])
         + SumHints(Tail(attempts))
get_total_incorrect_attempts(result) == SumIncorrect(result.attempted_questions)
get_total_hints_requested(result) == SumHints(result.attempted_questions)

\* Faulty constructor: the total is stored as the incorrect attempts too.
QuestionAttemptAllIncorrect(time_taken, total_attempts, incorrect_attempts) ==
    [ time_taken |-> time_taken, total_attempts |-> total_attempts,
      incorrect_attempts |-> total_attempts, hints_requested |-> None ]
\* QuestionAttempt::new(id, time, total_attempts, incorrect_attempts).
QuestionAttempt(time_taken, total_attempts, incorrect_attempts) ==
    [ time_taken |-> time_taken, total_attempts |-> total_attempts,
      incorrect_attempts |-> incorrect_attempts, hints_requested |-> None ]

\* ------------------------------------------------------------ reward
\* update: difficulty_weight of the attempted level.
difficulty_weight(level) ==
    CASE level = "VeryEasy" -> Lit(2, 10)
      [] level = "Easy" -> Lit(3, 10)
      [] level = "Medium" -> Lit(4, 10)
      [] level = "Hard" -> Lit(6, 10)
      [] level = "VeryHard" -> Lit(7, 10)
      [] level = "Expert" -> Lit(75, 100)
      [] level = "Master" -> Lit(775, 1000)
      [] level = "Grandmaster" -> Lit(8, 10)

\* update: time_taken_range_for_difficulty, in seconds (lower, upper).
TimeBand(level) ==
    CASE level = "VeryEasy" -> << 5, 10 >>
      [] level = "Easy" -> << 10, 15 >>
      [] level = "Medium" -> << 20, 30 >>
      [] level = "Hard" -> << 30, 40 >>
      [] level = "VeryHard" -> << 40, 50 >>
      [] level = "Expert" -> << 50, 60 >>
      [] level = "Master" -> << 60, 70 >>
      [] level = "Grandmaster" -> << 70, 80 >>
time_taken_range_for_difficulty(level) ==
    << F32(TimeBand(level)[1]), F32(TimeBand(level)[2]) >>

\* update: the time sub-reward of a total time (seconds) at a level.
time_taken_reward(level, time_taken) ==
    LET band == time_taken_range_for_difficulty(level)
        total_time_taken == F32(time_taken)
    IN  IF total_time_taken <= band[1] THEN F32(1)
        ELSE LET time_taken_range == band[2] - band[1]
                 distance_from_expected_time ==
                     total_time_taken - (band[2] - Div(time_taken_range, F32(2)))
                 distance_from_expected_time_percentage ==
                     Div(distance_from_expected_time, band[2] - band[1])
                 penalty ==
                     Mul(distance_from_expected_time_percentage, time_taken_range)
             IN  F32(1) - Div(penalty, time_taken_range)

\* update: the incorrect-attempts and hints sub-rewards; total_attempts is
\* the number of attempted questions.
incorrect_attempts_reward(result) ==
    LET total_attempts == Len(result.attempted_questions)
        total_incorrect_attempts == get_total_incorrect_attempts(result)
    IN  IF total_incorrect_attempts = 0 THEN F32(1)
        ELSE F32(1) - Ratio(total_incorrect_attempts, total_attempts)
hints_requested_reward(result) ==
    LET total_attempts == Len(result.attempted_questions)
        total_hints_requested == get_total_hints_requested(result)
    IN  IF total_hints_requested = 0 THEN F32(1)
        ELSE F32(1) - Ratio(total_hints_requested, total_attempts)

\* update: the overall reward, clamped to [-1, 1].  The weight is the one of
\* the result's difficulty, the time band the one of the state's.
ClampedReward(state, result) ==
    LET dw == difficulty_weight(result.difficulty_level)
        time_taken_weight == Mul(Lit(3, 10), dw)
        incorrect_attempts_weight == Mul(Lit(5, 10), dw)
        hints_requested_weight == Mul(Lit(2, 10), dw)
        reward ==
            Div(Mul(time_taken_weight,
                    time_taken_reward(state[2], result.time_taken))
                + Mul(incorrect_attempts_weight, incorrect_attempts_reward(result))
                + Mul(hints_requested_weight, hints_requested_reward(result)),
                dw)
    IN  Min(Max(reward, F32(-1)), F32(1))

\* Faulty classifier: a reward below the basic threshold is tagged Basic.
MasteryOfBasicFloor(reward) ==
    IF reward >= FULL_MASTERY_THRESHOLD THEN "Full"
    ELSE IF reward >= COMPETENT_MASTERY_THRESHOLD THEN "Competent"
    ELSE "Basic"

\* update: mastery is classified for Strategy2 only.
ClassifiesMastery(strat) == strat = "Strategy2"
MasteryOf(reward) ==
    IF reward >= FULL_MASTERY_THRESHOLD THEN "Full"
    ELSE IF reward >= COMPETENT_MASTERY_THRESHOLD THEN "Competent"
    ELSE IF reward >= BASIC_MASTERY_THRESHOLD THEN "Basic"
    ELSE "None"
AdjustedReward(reward, mastery) ==
    CASE mastery = "Full" -> F32(1)
      [] mastery = "Competent" -> reward + Lit(1, 10)
      [] mastery = "Basic" -> reward
      [] OTHER -> reward - Lit(1, 10)

\* ------------------------------------------------------------ Q-table
\* Faulty insert: writing one key resets every other entry.
InsertResetting(qt, key, value) ==
    [ k \in (DOMAIN qt) \cup { key } |-> IF k = key THEN value ELSE F32(0) ]
\* QTable = HashMap<(Lesson, DifficultyLevel), f32>: a function whose domain
\* is the set of keys.  insert adds the key or overwrites its value.
Insert(qt, key, value) ==
    [ k \in (DOMAIN qt) \cup { key } |-> IF k = key THEN value ELSE qt[k] ]
\* Faulty seeding: the loop stops one lesson short.
SeededQTableWithoutLast ==
    [ k \in { << l, get_difficulty_level(l) >> :
                l \in Lesson \ { Len(difficulties) - 1 } } |-> F32(0) ]
\* generate_simulated_learners_with_q_tables: every (lesson, its difficulty)
\* inserted with value 0.
SeededQTable ==
    [ k \in { << l, get_difficulty_level(l) >> : l \in Lesson } |-> F32(0) ]
SetMax(S) == CHOOSE x \in S : \A y \in S : y <= x

\* Faulty rule: the None tag keeps the level instead of lowering it.
NextIndexNoneStays(strat, current_index, mastery_level, coin) ==
    LET last == Len(difficulties) - 1
    IN  IF strat = "Strategy1"
        THEN Max(Min(current_index + 1, last), 0)
        ELSE LET m == mastery_level[1]
                 next_index ==
                     CASE m = "Full" -> current_index + 1
                       [] m = "Competent" ->
                            IF coin THEN current_index + 1 ELSE current_index
                       [] OTHER -> current_index
             IN  Max(Min(next_index, last), 0)
\* Faulty rule: the first strategy keeps the level instead of advancing.
NextIndexBaseStays(strat, current_index, mastery_level, coin) ==
    LET last == Len(difficulties) - 1
    IN  IF strat = "Strategy1"
        THEN current_index
        ELSE LET m == mastery_level[1]
                 next_index ==
                     CASE m = "Full" -> current_index + 1
                       [] m = "Competent" ->
                            IF coin THEN current_index + 1 ELSE current_index
                       [] m = "Basic" -> current_index
                       [] OTHER ->
                            IF current_index = 0 THEN 0 ELSE current_index - 1
             IN  Max(Min(next_index, last), 0)

\* Faulty rule: full mastery (and the strategy without mastery) skips a
\* level.
NextIndexSkips(strat, current_index, mastery_level, coin) ==
    LET last == Len(difficulties) - 1
    IN  IF strat = "Strategy1"
        THEN Max(Min(current_index + 2, last), 0)
        ELSE LET m == mastery_level[1]
             IN  Max(Min(IF m = "Full" THEN current_index + 2
                         ELSE current_index, last), 0)

\* choose_next_difficulty: the index chosen; coin is the outcome of
\* rand < 0.6 drawn for Competent, mastery_level an Option<Mastery> that the
\* caller has checked to be Some for the strategies that unwrap it.
NextIndex(strat, current_index, mastery_level, coin) ==
    LET last == Len(difficulties) - 1
    IN  IF strat = "Strategy1"
        THEN Max(Min(current_index + 1, last), 0)
        ELSE LET m == mastery_level[1]
                 next_index ==
                     CASE m = "Full" -> current_index + 1
                       [] m = "Competent" ->
                            IF coin THEN current_index + 1 ELSE current_index
                       [] m = "Basic" -> current_index
                       [] OTHER ->
                            IF current_index = 0 THEN 0 ELSE current_index - 1
             IN  Max(Min(next_index, last), 0)

\* choose_next_difficulty: mastery_level.unwrap() on None.
UnwrapsNone(strat, mastery_level) ==
    strat # "Strategy1" /\ mastery_level = None

\* Faulty lookup: the lesson of any key is paired with the next difficulty.
ChooseNextDifficultyAnyLesson(qt, strat, state, mastery_level, coin) ==
    LET next_index == NextIndex(strat, IndexOf(state[2]), mastery_level, coin)
        next_difficulty == difficulties[next_index + 1]
    IN  { << k[1], next_difficulty >> : k \in DOMAIN qt }

\* choose_next_difficulty: the (lesson, difficulty) pairs it can return:
\* q_table.keys().find(..) yields any key of the chosen difficulty, in the
\* map's iteration order; the empty set is the unwrap of a failed find.
ChooseNextDifficulty(qt, strat, state, mastery_level, coin) ==
    LET next_index == NextIndex(strat, IndexOf(state[2]), mastery_level, coin)
        next_difficulty == difficulties[next_index + 1]
    IN  { << k[1], next_difficulty >> :
            k \in { j \in DOMAIN qt : j[2] = next_difficulty } }

\* choose_next_difficulty panics: the unwrap of a None mastery level, or
\* of a find that met no lesson of the next difficulty.
ChooseNextDifficultyPanics(qt, strat, state, mastery_level, coin) ==
    IF UnwrapsNone(strat, mastery_level) THEN TRUE
    ELSE ChooseNextDifficulty(qt, strat, state, mastery_level, coin) = {}

\* Faulty search: the greatest value of the table, whatever the difficulty.
GetBestActionOfTable(qt, state) ==
    { k \in DOMAIN qt : \A j \in DOMAIN qt : qt[j] <= qt[k] }
\* get_best_action: a key of the state's difficulty with the greatest value
\* (the first such key in iteration order); empty when there is none.
GetBestAction(qt, state) ==
    { k \in DOMAIN qt :
        /\ k[2] = state[2]
        /\ \A j \in DOMAIN qt : j[2] = state[2] => qt[j] <= qt[k] }

\* Faulty policy: the exploring draw returns the best-known action too.
EpsilonGreedyAlwaysExploits(qt, strat, state, mastery_level, explore, coin) ==
    IF GetBestAction(qt, state) # {}
    THEN GetBestAction(qt, state)
    ELSE ChooseNextDifficulty(qt, strat, state, mastery_level, coin)
\* Faulty policy: the exploit branch is never taken.
EpsilonGreedyAlwaysExplores(qt, strat, state, mastery_level, explore, coin) ==
    ChooseNextDifficulty(qt, strat, state, mastery_level, coin)

\* epsilon_greedy_action: explore is the outcome of rand_value < epsilon.
EpsilonGreedyAction(qt, strat, state, mastery_level, explore, coin) ==
    IF explore
    THEN ChooseNextDifficulty(qt, strat, state, mastery_level, coin)
    ELSE IF GetBestAction(qt, state) # {}
         THEN GetBestAction(qt, state)
         ELSE ChooseNextDifficulty(qt, strat, state, mastery_level, coin)
\* epsilon_greedy_action reaches the unwrap of choose_next_difficulty.
EpsilonGreedyPanics(qt, strat, state, mastery_level, explore, coin) ==
    IF explore \/ GetBestAction(qt, state) = {}
    THEN ChooseNextDifficultyPanics(qt, strat, state, mastery_level, coin)
    ELSE FALSE

\* update: the mastery tag and the reward used in the Q-update, from the
\* clamped reward.
MasteryLevel(strat, clamped) ==
    IF ClassifiesMastery(strat) THEN Some(MasteryOf(clamped)) ELSE None
FinalReward(strat, clamped) ==
    IF ClassifiesMastery(strat)
    THEN AdjustedReward(clamped, MasteryOf(clamped))
    ELSE clamped
UpdateMastery(strat, state, result) ==
    MasteryLevel(strat, ClampedReward(state, result))

\* Faulty next_max: the greatest value of the whole table.
NextMaxOfTable(qt, next_state) ==
    LET vs == { qt[k] : k \in DOMAIN qt }
    IN  IF vs = {} THEN F32(0) ELSE SetMax(vs)
\* update: next_max, the greatest value among the entries of next_state's
\* lesson, or 0.
NextMax(qt, next_state) ==
    LET vs == { qt[k] : k \in { j \in DOMAIN qt : j[1] = next_state } }
    IN  IF vs = {} THEN F32(0) ELSE SetMax(vs)

\* update: the new value of Q[state].
NewValue(old_value, reward, next_max) ==
    old_value + Mul(learning_rate, reward + Mul(discount_factor, next_max) - old_value)

\* update: the locals of one call, given the pair choose_next_difficulty
\* returned.
UpdateLocals(qt, strat, state, result, next) ==
    LET old_value == IF state \in DOMAIN qt THEN qt[state] ELSE F32(0)
        clamped == ClampedReward(state, result)
        reward == FinalReward(strat, clamped)
        next_max == NextMax(qt, next[1])
    IN  [ state |-> state,
          old_value |-> old_value,
          clamped_reward |-> clamped,
          reward |-> reward,
          mastery_level |-> MasteryLevel(strat, clamped),
          next_state |-> next[1],
          next_difficulty |-> next[2],
          next_max |-> next_max,
          new_value |-> NewValue(old_value, reward, next_max) ]

\* Faulty bookkeeping: the other levels are not reset.
UpdateConsecutiveAttemptsNoReset(ca, level) ==
    [ d \in DOMAIN ca |-> IF d = level THEN ca[d] + 1 ELSE ca[d] ]

\* Bookkeeping of the consecutive attempts per difficulty: the attempted
\* level is incremented, every other level reset to 0.
UpdateConsecutiveAttempts(ca, level) ==
    [ d \in DOMAIN ca |-> IF d = level THEN ca[d] + 1 ELSE 0 ]

\* ------------------------------------------------------------ decay
\* decay_counter of a difficulty at construction: VeryEasy 2 ... Grandmaster 9.
InitialDecayCounter(level) == IndexOf(level) + 2
\* Updates without an attempt after which a level decays: 2000, 1750, 1600,
\* 1400, 1200, 1050, 900, 750, counted in units of DecayTimeUnit updates.
DecayTimeUnit == 250
DecayTriggerThreshold(level) ==
    CASE level = "VeryEasy" -> 2000
      [] level = "Easy" -> 1750
      [] level = "Medium" -> 1600
      [] level = "Hard" -> 1400
      [] level = "VeryHard" -> 1200
      [] level = "Expert" -> 1050
      [] level = "Master" -> 900
      [] level = "Grandmaster" -> 750
DecayThreshold(level) == RoundDiv(DecayTriggerThreshold(level), DecayTimeUnit)
\* Faulty bookkeeping: a level never attempted counts its non-attempts too.
NonAttemptCounterCountingAll(nac, hba, attempted, level) ==
    IF level = attempted THEN 0 ELSE nac[level] + 1
\* Non-attempt bookkeeping of one update: reset for the attempted level,
\* one more for every other level attempted before.
NonAttemptCounterAfter(nac, hba, attempted, level) ==
    IF level = attempted THEN 0
    ELSE IF hba[level] THEN nac[level] + 1
    ELSE nac[level]
\* Decay of a level fires: its threshold is reached and decay events remain.
DecayFires(nac, dc, level) ==
    nac[level] >= DecayThreshold(level) /\ dc[level] > 0
\* Faulty decrement: two events are consumed by one decay.
DecayCounterLessTwo(dc, level) == dc[level] - 2
\* The decay counter of a level after one of its decay events.
DecayCounterAfterDecay(dc, level) == dc[level] - 1
\* Faulty rate: computed as if one more decay event remained.
DecayedOneLate(value, counter) == Mul(value, Div(F32(1), F32(counter + 1)))
\* A Q-value multiplied by decay_rate = 1 / decay_counter.
Decayed(value, counter) == Mul(value, Div(F32(1), F32(counter)))

\* The greatest Q-value among the entries of a difficulty, and the levels
\* that count as weak: some entry, and none above 0.5.
MaxQAt(qt, level) == SetMax({ qt[k] : k \in { j \in DOMAIN qt : j[2] = level } })
\* Faulty guard: a level whose greatest value is exactly 0.5 is not weak.
IsWeakBelowHalf(qt, level) ==
    /\ \E k \in DOMAIN qt : k[2] = level
    /\ MaxQAt(qt, level) < Lit(5, 10)
IsWeak(qt, level) ==
    /\ \E k \in DOMAIN qt : k[2] = level
    /\ MaxQAt(qt, level) <= Lit(5, 10)
\* Faulty search: a weak level counts whether or not it was attempted.
WeakLevels(qt, hba) == { d \in DifficultyLevel : IsWeak(qt, d) }
\* The weak previously-attempted difficulties the explore branch of the
\* decaying strategies searches for.
WeakAttemptedLevels(qt, hba) ==
    { d \in DifficultyLevel : hba[d] /\ IsWeak(qt, d) }
\* The next-difficulty rule of the decaying strategies: a weak current level
\* is kept, otherwise the mastery rule applies.
NextIndexDecaying(qt, state, mastery_level, coin) ==
    IF IsWeak(qt, state[2]) THEN IndexOf(state[2])
    ELSE NextIndex("DecayingQValues", IndexOf(state[2]), mastery_level, coin)
ChooseNextDifficultyDecaying(qt, state, mastery_level, coin) ==
    LET next_difficulty ==
            difficulties[NextIndexDecaying(qt, state, mastery_level, coin) + 1]
    IN  { << k[1], next_difficulty >> :
            k \in { j \in DOMAIN qt : j[2] = next_difficulty } }
\* The action selection of the decaying strategies: exploring returns any
\* lesson of a weak previously-attempted level when there is one.
EpsilonGreedyActionDecaying(qt, hba, state, mastery_level, explore, coin) ==
    IF explore
    THEN IF WeakAttemptedLevels(qt, hba) # {}
         THEN { k \in DOMAIN qt : k[2] \in WeakAttemptedLevels(qt, hba) }
         ELSE ChooseNextDifficultyDecaying(qt, state, mastery_level, coin)
    ELSE IF GetBestAction(qt, state) # {}
         THEN GetBestAction(qt, state)
         ELSE ChooseNextDifficultyDecaying(qt, state, mastery_level, coin)

\* ------------------------------------------------------------ simulator
\* Samples of rand::thread_rng().gen::<f32>(), uniform in [0, 1).
RandSamples == { Lit(1, 10), Lit(9, 10) }
\* The draws choose_next_difficulty makes: one, for Competent under the
\* strategies that read the mastery level, and none otherwise (a single
\* stand-in value).
CoinSamples(strat, mastery_level) ==
    IF strat # "Strategy1" /\ mastery_level = Some("Competent")
    THEN RandSamples
    ELSE { Lit(9, 10) }
\* Outcomes of the retry loop of one question: draws until the first one
\* below the correctness factor.
AttemptSamples == { 1, 2, 5 }

\* simulate_lesson_attempt: the total time, (rand * range + lower) as i32,
\* lies in lower .. upper - 1.
TimeSamples(level) ==
    { TimeBand(level)[1], TimeBand(level)[2] - 1 }

\* simulate_lesson_attempt: probability of a correct answer.
correctness_factor(level, current_q_value) ==
    LET base ==
            CASE level = "VeryEasy" -> Lit(95, 100)
              [] level = "Easy" -> Lit(8, 10)
              [] level = "Medium" -> Lit(65, 100)
              [] level = "Hard" -> Lit(6, 10)
              [] level = "VeryHard" -> Lit(55, 100)
              [] level = "Expert" -> Lit(5, 10)
              [] level = "Master" -> Lit(45, 100)
              [] level = "Grandmaster" -> Lit(4, 10)
    IN  IF current_q_value > F32(0)
        THEN base + Mul(current_q_value, Lit(1, 10))
        ELSE base

\* The attempt counts the retry loop can end with: a draw in [0, 1) is
\* always below a factor of 1 or more, never below a factor of 0 or less.
AttemptsPossible(factor) ==
    IF factor >= F32(1) THEN { 1 }
    ELSE IF factor > F32(0) THEN AttemptSamples
    ELSE {}

\* simulate_lesson_attempt: the LessonResult built from the total time and
\* the attempts of each question.
LessonResultOf(lesson, time_taken, attempts) ==
    [ difficulty_level |-> get_difficulty_level(lesson),
      time_taken |-> time_taken,
      total_questions |-> Cardinality(get_questions(lesson)),
      attempted_questions |->
          [ q \in get_questions(lesson) |->
              QuestionAttempt(time_taken \div Cardinality(get_questions(lesson)),
                              attempts[q], Max(0, attempts[q] - 1)) ] ]

\* ------------------------------------------------------------ state
VARIABLES
    strategy,             \* QTableAlgorithm.strategy
    q_table,              \* QTableAlgorithm.q_table
    consecutive_attempts, \* attempts in a row, per difficulty
    lesson_plans,         \* Learner.lesson_plans, each plan its one lesson
    num_iterations,       \* iterations the driver runs
    iteration,            \* iterations completed
    pc,                   \* position in the body of the driver's loop
    lesson_result,        \* Option: the result of the attempt
    mastery_level,        \* Option<Mastery> returned by update
    last_update,          \* Option: the locals of the last update
    selected,             \* Option: the last epsilon_greedy_action call
    explores,             \* exploration draws taken so far
    has_been_attempted,   \* per difficulty: attempted at least once
    non_attempt_counter,  \* per difficulty: updates since its last attempt
    decay_counter,        \* per difficulty: decay events remaining
    decay_events,         \* per difficulty: decay events applied so far
    learner_ids,          \* the learner-id list given to the driver
    learners,             \* learners_with_q_tables: id -> (Learner, QTableAlgorithm)
    draws,                \* per learner: the random draws of its iterations
    values,               \* snapshot entries of the iteration in progress
    iteration_jsons,      \* snapshots of the completed iterations
    traits,               \* the two ASDTraits of a calculate_alignment call
    alignment,            \* Option: the locals of that call
    cli,                  \* position of main: at the prompt, or exited
    input,                \* Option: the line read last, trimmed
    simulations,          \* the simulations main has run, in order
    statistics,           \* the lines written to all_time_statistics.txt
    attempt_time,         \* Option: time_taken of simulate_lesson_attempt
    question_attempts,    \* its Vec of the QuestionAttempts pushed so far
    attempt_count         \* attempts, the counter of its retry loop

vars ==
    << strategy, q_table, consecutive_attempts, lesson_plans, num_iterations,
       iteration, pc, lesson_result, mastery_level, last_update, selected,
       explores, has_been_attempted, non_attempt_counter, decay_counter,
       decay_events, learner_ids, learners, draws, values, iteration_jsons,
       traits, alignment, cli, input, simulations, statistics,
       attempt_time, question_attempts, attempt_count >>
\* The bookkeeping of the decaying strategies.
decay_vars ==
    << has_been_attempted, non_attempt_counter, decay_counter, decay_events >>
\* The driver's map of learners and its snapshots.
driver_vars == << learner_ids, learners, draws, values, iteration_jsons >>
\* The arguments and locals of calculate_alignment.
trait_vars == << traits, alignment >>
\* The state of main.
cli_vars == << cli, input, simulations, statistics >>
\* The locals of simulate_lesson_attempt.
attempt_vars == << attempt_time, question_attempts, attempt_count >>

\* Learner::get_current_lesson: the lesson of the latest plan.
get_current_lesson == lesson_plans[Len(lesson_plans)]
CurrentState ==
    << get_current_lesson, get_difficulty_level(get_current_lesson) >>

\* The learner and Q-table before the first iteration: the table seeded, the
\* first plan holding first_lesson.
InitWithTable(strat, qt, iterations) ==
    /\ strategy = strat
    /\ q_table = qt
    /\ consecutive_attempts = [ d \in DifficultyLevel |-> 0 ]
    /\ num_iterations = iterations
    /\ iteration = 0
    /\ pc = "attempt"
    /\ lesson_result = None
    /\ mastery_level = None
    /\ last_update = None
    /\ selected = None
    /\ explores = 0
    /\ has_been_attempted = [ d \in DifficultyLevel |-> FALSE ]
    /\ non_attempt_counter = [ d \in DifficultyLevel |-> 0 ]
    /\ decay_counter = [ d \in DifficultyLevel |-> InitialDecayCounter(d) ]
    /\ decay_events = [ d \in DifficultyLevel |-> 0 ]
InitTable(strat, iterations) == InitWithTable(strat, SeededQTable, iterations)
InitEngine(strat, first_lesson, iterations) ==
    /\ InitTable(strat, iterations)
    /\ lesson_plans = << first_lesson >>
\* No call of calculate_alignment, main not started.
NoTraits == traits = << >> /\ alignment = None
NoCli ==
    /\ cli = "prompt"
    /\ input = None
    /\ simulations = << >>
    /\ statistics = << >>
\* simulate_lesson_attempt not entered, or taken as one step.
NoAttempt ==
    /\ attempt_time = None
    /\ question_attempts = << >>
    /\ attempt_count = 0
\* A run of one learner: the driver's map of learners is not used.
InitRun(strat, first_lesson, iterations) ==
    /\ InitEngine(strat, first_lesson, iterations)
    /\ NoTraits
    /\ NoCli
    /\ NoAttempt
    /\ learner_ids = << >>
    /\ learners = << >>
    /\ draws = << >>
    /\ values = << >>
    /\ iteration_jsons = << >>

\* A simulation run under any strategy, the learner's first plan holding any
\* lesson of the module (Learner::add_lesson_plan).
Init ==
    \E strat \in Strategy, first_lesson \in Lesson :
        InitRun(strat, first_lesson, MaxIterations)

\* A run on the lessons of a module with two lessons of the second
\* difficulty, the table seeded by the same loop, from either of the first
\* two lessons.
InsertedKey == << SecondEasyLesson, get_difficulty_level(SecondEasyLesson) >>
InitInserted ==
    \E strat \in Strategy, first_lesson \in { 0, 1 } :
        /\ InitWithTable(strat, Insert(SeededQTable, InsertedKey, F32(0)),
                         MaxIterations)
        /\ lesson_plans = << first_lesson >>
        /\ learner_ids = << >>
        /\ learners = << >>
        /\ draws = << >>
        /\ values = << >>
        /\ iteration_jsons = << >>
        /\ NoTraits
        /\ NoCli
        /\ NoAttempt

\* The attempt of the current lesson with a given result.
Attempt(result) ==
    /\ pc = "attempt"
    /\ iteration < num_iterations
    /\ lesson_result' = Some(result)
    /\ pc' = "update"
    /\ UNCHANGED << strategy, q_table, consecutive_attempts, lesson_plans,
                    num_iterations, iteration, mastery_level, last_update,
                    selected, explores >>
    /\ UNCHANGED decay_vars
    /\ UNCHANGED trait_vars
    /\ UNCHANGED attempt_vars
    /\ UNCHANGED cli_vars
    /\ UNCHANGED driver_vars

\* The per-question attempt counts the retry loop can produce.  LessonResult
\* is read only through sums over its questions, so one ordering of every
\* combination of counts is enumerated.
AttemptVectors(questions, possible) ==
    { a \in [ questions -> possible ] :
        \A p, q \in questions : p < q => a[p] <= a[q] }

\* simulate_lesson_attempt on the learner's current lesson.
SimulateLessonAttempt ==
    LET lesson == get_current_lesson
        level == get_difficulty_level(lesson)
        current_q_value ==
            IF CurrentState \in DOMAIN q_table THEN q_table[CurrentState]
            ELSE F32(0)
        possible == AttemptsPossible(correctness_factor(level, current_q_value))
    IN  \E time_taken \in TimeSamples(level),
           attempts \in AttemptVectors(get_questions(lesson), possible) :
            Attempt(LessonResultOf(lesson, time_taken, attempts))

\* update_q_table -> QTableAlgorithm::update on the current lesson's state,
\* when choose_next_difficulty returns.
UpdateQTable ==
    /\ pc = "update"
    /\ \E rand \in CoinSamples(strategy,
                               UpdateMastery(strategy, CurrentState,
                                             lesson_result[1])) :
         LET coin == rand < Lit(6, 10)
             mastery == UpdateMastery(strategy, CurrentState, lesson_result[1])
         IN  /\ ~ChooseNextDifficultyPanics(q_table, strategy, CurrentState,
                                            mastery, coin)
             /\ \E next \in ChooseNextDifficulty(q_table, strategy, CurrentState,
                                                 mastery, coin) :
                  LET u == UpdateLocals(q_table, strategy, CurrentState,
                                        lesson_result[1], next)
                  IN  /\ q_table' = Insert(q_table, CurrentState, u.new_value)
                      /\ mastery_level' = u.mastery_level
                      /\ last_update' = Some(u)
    /\ consecutive_attempts' =
           UpdateConsecutiveAttempts(consecutive_attempts, CurrentState[2])
    /\ pc' = "choose"
    /\ UNCHANGED << strategy, lesson_plans, num_iterations, iteration,
                    lesson_result, selected, explores >>
    /\ UNCHANGED decay_vars
    /\ UNCHANGED trait_vars
    /\ UNCHANGED attempt_vars
    /\ UNCHANGED cli_vars
    /\ UNCHANGED driver_vars

\* QTableAlgorithm::update panics in choose_next_difficulty (unwrap of a
\* None mastery level, or no lesson of the next difficulty) before it
\* writes the table.
UpdatePanics ==
    /\ pc = "update"
    /\ \E rand \in CoinSamples(strategy,
                               UpdateMastery(strategy, CurrentState,
                                             lesson_result[1])) :
         ChooseNextDifficultyPanics(
             q_table, strategy, CurrentState,
             UpdateMastery(strategy, CurrentState, lesson_result[1]),
             rand < Lit(6, 10))
    /\ pc' = "panicked"
    /\ UNCHANGED << strategy, q_table, consecutive_attempts, lesson_plans,
                    num_iterations, iteration, lesson_result, mastery_level,
                    last_update, selected, explores >>
    /\ UNCHANGED decay_vars
    /\ UNCHANGED trait_vars
    /\ UNCHANGED attempt_vars
    /\ UNCHANGED cli_vars
    /\ UNCHANGED driver_vars

\* choose_lesson_based_on_q_table -> epsilon_greedy_action, then
\* Learner::set_current_lesson; the end of the loop body.
ChooseLesson ==
    /\ pc = "choose"
    /\ \E rand_value \in RandSamples,
          rand \in CoinSamples(strategy, mastery_level) :
         LET explore == rand_value < epsilon
             coin == rand < Lit(6, 10)
         IN  /\ ~EpsilonGreedyPanics(q_table, strategy, CurrentState,
                                     mastery_level, explore, coin)
             /\ \E action \in EpsilonGreedyAction(q_table, strategy, CurrentState,
                                                  mastery_level, explore, coin) :
                  /\ selected' = Some([ state |-> CurrentState,
                                        mastery_level |-> mastery_level,
                                        explore |-> explore,
                                        action |-> action ])
                  /\ lesson_plans' = Append(lesson_plans, action[1])
             /\ explores' = IF explore THEN explores + 1 ELSE explores
    /\ iteration' = iteration + 1
    /\ pc' = IF iteration + 1 = num_iterations THEN "done" ELSE "attempt"
    /\ lesson_result' = None
    /\ UNCHANGED << strategy, q_table, consecutive_attempts, num_iterations,
                    mastery_level, last_update >>
    /\ UNCHANGED decay_vars
    /\ UNCHANGED trait_vars
    /\ UNCHANGED attempt_vars
    /\ UNCHANGED cli_vars
    /\ UNCHANGED driver_vars

Next ==
    \/ SimulateLessonAttempt
    \/ UpdateQTable
    \/ UpdatePanics
    \/ ChooseLesson

Spec == Init /\ [][Next]_vars
SpecInserted == InitInserted /\ [][Next]_vars

\* A run of the two strategies the engine implements with and without
\* mastery, on the seeded table, from any lesson.
InitSeeded ==
    \E strat \in { "Strategy1", "Strategy2" }, first_lesson \in Lesson :
        InitRun(strat, first_lesson, MaxIterations)
NextSeeded ==
    \/ SimulateLessonAttempt
    \/ UpdateQTable
    \/ ChooseLesson
SpecSeeded == InitSeeded /\ [][NextSeeded]_vars

\* epsilon_greedy_action panics in choose_next_difficulty: the selection
\* returns no lesson and set_current_lesson is not reached.
ChoosePanics ==
    /\ pc = "choose"
    /\ \E rand_value \in RandSamples,
          rand \in CoinSamples(strategy, mastery_level) :
         EpsilonGreedyPanics(q_table, strategy, CurrentState, mastery_level,
                             rand_value < epsilon, rand < Lit(6, 10))
    /\ pc' = "panicked"
    /\ UNCHANGED << strategy, q_table, consecutive_attempts, lesson_plans,
                    num_iterations, iteration, lesson_result, mastery_level,
                    last_update, selected, explores >>
    /\ UNCHANGED decay_vars
    /\ UNCHANGED trait_vars
    /\ UNCHANGED attempt_vars
    /\ UNCHANGED cli_vars
    /\ UNCHANGED driver_vars

\* A run on a table built through QTableAlgorithm::insert without one of
\* the lessons: the current lesson, or the lesson of the next difficulty.
WithoutLesson(qt, lesson) ==
    [ k \in { j \in DOMAIN qt : j[1] # lesson } |-> qt[k] ]
InitUnseeded ==
    \E strat \in { "Strategy1", "Strategy2" }, first_lesson \in Lesson,
       missing \in Lesson :
        /\ missing \in { first_lesson,
                         Min(first_lesson + 1, Len(difficulties) - 1) }
        /\ InitWithTable(strat, WithoutLesson(SeededQTable, missing),
                         MaxIterations)
        /\ lesson_plans = << first_lesson >>
        /\ learner_ids = << >>
        /\ learners = << >>
        /\ draws = << >>
        /\ values = << >>
        /\ iteration_jsons = << >>
        /\ NoTraits
        /\ NoCli
        /\ NoAttempt
NextUnseeded ==
    \/ SimulateLessonAttempt
    \/ UpdateQTable
    \/ UpdatePanics
    \/ ChooseLesson
    \/ ChoosePanics
SpecUnseeded == InitUnseeded /\ [][NextUnseeded]_vars

\* ------------------------------------------------------------ scenarios
\* A run of the first strategy from the VeryEasy lesson in which every
\* result is perfect: each question answered at the first attempt, no hint,
\* the time at the lower bound of the level's band.
InitPerfect == InitRun("Strategy1", 0, PerfectIterations)
PerfectLessonAttempt ==
    LET lesson == get_current_lesson
        level == get_difficulty_level(lesson)
    IN  Attempt(LessonResultOf(lesson, TimeBand(level)[1],
                               [ q \in get_questions(lesson) |-> 1 ]))
NextPerfect ==
    \/ PerfectLessonAttempt
    \/ UpdateQTable
    \/ ChooseLesson
SpecPerfect == InitPerfect /\ [][NextPerfect]_vars

\* A run of the second strategy from the Medium lesson in which every
\* question is attempted WrongAttempts times, all but the last attempt
\* incorrect, and the time is the upper bound of the level's band.
InitAlwaysWrong == InitRun("Strategy2", 2, WrongIterations)
WrongLessonAttempt ==
    LET lesson == get_current_lesson
        level == get_difficulty_level(lesson)
    IN  Attempt(LessonResultOf(lesson, TimeBand(level)[2],
                               [ q \in get_questions(lesson) |-> WrongAttempts ]))
NextAlwaysWrong ==
    \/ WrongLessonAttempt
    \/ UpdateQTable
    \/ ChooseLesson
SpecAlwaysWrong == InitAlwaysWrong /\ [][NextAlwaysWrong]_vars

\* A run of the first strategy from the VeryEasy lesson, long enough for
\* the exploring branch to be taken once per level and once more, every
\* result perfect.  The driver's loop runs on until its last iteration.
InitEventually == InitRun("Strategy1", 0, EventualIterations)
SpecEventually ==
    InitEventually /\ [][NextPerfect]_vars /\ WF_vars(NextPerfect)

\* A run in which the attempt takes any whole number of seconds the
\* simulator can produce for the level, (rand * range + lower) as i32.
TimesTaken(level) == TimeBand(level)[1]..(TimeBand(level)[2] - 1)
InitReward ==
    \E strat \in { "Strategy1", "Strategy2" }, first_lesson \in Lesson :
        InitRun(strat, first_lesson, RewardIterations)
TimedLessonAttempt ==
    LET lesson == get_current_lesson
        level == get_difficulty_level(lesson)
        current_q_value ==
            IF CurrentState \in DOMAIN q_table THEN q_table[CurrentState]
            ELSE F32(0)
        possible == AttemptsPossible(correctness_factor(level, current_q_value))
    IN  \E time_taken \in TimesTaken(level),
           attempts \in AttemptVectors(get_questions(lesson), possible) :
            Attempt(LessonResultOf(lesson, time_taken, attempts))
NextReward ==
    \/ TimedLessonAttempt
    \/ UpdateQTable
    \/ ChooseLesson
SpecReward == InitReward /\ [][NextReward]_vars

\* simulate_lesson_attempt taken draw by draw, on any lesson and a table
\* whose entry for the lesson is absent, negative, zero or positive.
QValueSamples == { F32(-1), F32(0), Lit(5, 10), F32(1) }
\* Draws of gen::<f64>(), uniform in [0, 1): the least, one in the middle
\* and the greatest the fixed-point image has.
RetrySamples == { F32(0), Lit(5, 10), F32(1) - 1 }
CurrentFactor ==
    correctness_factor(CurrentState[2],
                       IF CurrentState \in DOMAIN q_table
                       THEN q_table[CurrentState] ELSE F32(0))
InitAttempt ==
    \E lesson \in Lesson, absent \in BOOLEAN, value \in QValueSamples :
        /\ absent => value = F32(0)
        /\ InitWithTable(
               "Strategy1",
               IF absent
               THEN [ k \in DOMAIN SeededQTable
                             \ { << lesson, get_difficulty_level(lesson) >> }
                        |-> SeededQTable[k] ]
               ELSE Insert(SeededQTable,
                           << lesson, get_difficulty_level(lesson) >>, value),
               1)
        /\ lesson_plans = << lesson >>
        /\ learner_ids = << >>
        /\ learners = << >>
        /\ draws = << >>
        /\ values = << >>
        /\ iteration_jsons = << >>
        /\ NoTraits
        /\ NoCli
        /\ NoAttempt
\* The time taken is drawn; the loop over the questions begins.
DrawTimeTaken ==
    /\ pc = "attempt"
    /\ attempt_time = None
    /\ \E t \in TimeSamples(CurrentState[2]) : attempt_time' = Some(t)
    /\ UNCHANGED << question_attempts, attempt_count >>
    /\ UNCHANGED << strategy, q_table, consecutive_attempts, lesson_plans,
                    num_iterations, iteration, pc, lesson_result,
                    mastery_level, last_update, selected, explores >>
    /\ UNCHANGED decay_vars
    /\ UNCHANGED driver_vars
    /\ UNCHANGED trait_vars
    /\ UNCHANGED cli_vars
\* A draw of the retry loop that is not below the correctness factor.
IncorrectDraw ==
    /\ pc = "attempt"
    /\ attempt_time # None
    /\ Len(question_attempts) < Cardinality(get_questions(get_current_lesson))
    /\ attempt_count < MaxAttempts
    /\ \E rand_value \in RetrySamples : ~(rand_value < CurrentFactor)
    /\ attempt_count' = attempt_count + 1
    /\ UNCHANGED << attempt_time, question_attempts >>
    /\ UNCHANGED << strategy, q_table, consecutive_attempts, lesson_plans,
                    num_iterations, iteration, pc, lesson_result,
                    mastery_level, last_update, selected, explores >>
    /\ UNCHANGED decay_vars
    /\ UNCHANGED driver_vars
    /\ UNCHANGED trait_vars
    /\ UNCHANGED cli_vars
\* A draw below the correctness factor: the loop ends and the question's
\* QuestionAttempt is pushed.
CorrectDraw ==
    /\ pc = "attempt"
    /\ attempt_time # None
    /\ Len(question_attempts) < Cardinality(get_questions(get_current_lesson))
    /\ \E rand_value \in RetrySamples : rand_value < CurrentFactor
    /\ question_attempts' =
           Append(question_attempts,
                  QuestionAttempt(
                      attempt_time[1]
                          \div Cardinality(get_questions(get_current_lesson)),
                      attempt_count + 1,
                      Max(0, attempt_count + 1 - 1)))
    /\ attempt_count' = 0
    /\ UNCHANGED attempt_time
    /\ UNCHANGED << strategy, q_table, consecutive_attempts, lesson_plans,
                    num_iterations, iteration, pc, lesson_result,
                    mastery_level, last_update, selected, explores >>
    /\ UNCHANGED decay_vars
    /\ UNCHANGED driver_vars
    /\ UNCHANGED trait_vars
    /\ UNCHANGED cli_vars
\* LessonResult::new after the last question; the function returns.
ReturnLessonResult ==
    /\ pc = "attempt"
    /\ attempt_time # None
    /\ Len(question_attempts) = Cardinality(get_questions(get_current_lesson))
    /\ lesson_result' =
           Some([ difficulty_level |-> get_difficulty_level(get_current_lesson),
                  time_taken |-> attempt_time[1],
                  total_questions |->
                      Cardinality(get_questions(get_current_lesson)),
                  attempted_questions |-> question_attempts ])
    /\ pc' = "update"
    /\ UNCHANGED attempt_vars
    /\ UNCHANGED << strategy, q_table, consecutive_attempts, lesson_plans,
                    num_iterations, iteration, mastery_level, last_update,
                    selected, explores >>
    /\ UNCHANGED decay_vars
    /\ UNCHANGED driver_vars
    /\ UNCHANGED trait_vars
    /\ UNCHANGED cli_vars
NextAttempt ==
    \/ DrawTimeTaken
    \/ IncorrectDraw
    \/ CorrectDraw
    \/ ReturnLessonResult
\* The function is sequential code that keeps running, and its draws are
\* fair: a draw below the factor, possible again and again, is made.
SpecAttempt ==
    /\ InitAttempt
    /\ [][NextAttempt]_vars
    /\ WF_vars(NextAttempt)
    /\ SF_vars(CorrectDraw)

\* A sequence of updates under the decaying strategy, each on the lesson of
\* one of the first DecayLevelCount levels.  The value the Q-update writes
\* for the attempted state is the sample QWritten; the bookkeeping and the
\* decay that end the update follow.
QWritten == Lit(8, 10)
InitDecay == InitRun("DecayingQValues", 0, DecayIterations)
DecayingUpdate(lesson) ==
    LET attempted == get_difficulty_level(lesson)
        state == << lesson, attempted >>
        written == Insert(q_table, state, QWritten)
        counted == [ d \in DifficultyLevel |->
                       NonAttemptCounterAfter(non_attempt_counter,
                                              has_been_attempted, attempted, d) ]
        fired == { d \in DifficultyLevel :
                     DecayFires(counted, decay_counter, d) }
    IN  /\ iteration < num_iterations
        /\ has_been_attempted' =
               [ has_been_attempted EXCEPT ![attempted] = TRUE ]
        /\ consecutive_attempts' =
               UpdateConsecutiveAttempts(consecutive_attempts, attempted)
        /\ q_table' =
               [ k \in DOMAIN written |->
                   IF k[2] \in fired
                   THEN Decayed(written[k], decay_counter[k[2]])
                   ELSE written[k] ]
        /\ decay_counter' =
               [ d \in DifficultyLevel |->
                   IF d \in fired THEN DecayCounterAfterDecay(decay_counter, d)
                   ELSE decay_counter[d] ]
        /\ non_attempt_counter' =
               [ d \in DifficultyLevel |->
                   IF d \in fired THEN 0 ELSE counted[d] ]
        /\ decay_events' =
               [ d \in DifficultyLevel |->
                   IF d \in fired THEN decay_events[d] + 1
                   ELSE decay_events[d] ]
        /\ last_update' = Some([ state |-> state, fired |-> fired ])
        /\ iteration' = iteration + 1
        /\ UNCHANGED << strategy, lesson_plans, num_iterations, pc,
                        lesson_result, mastery_level, selected, explores >>
        /\ UNCHANGED driver_vars
        /\ UNCHANGED trait_vars
        /\ UNCHANGED attempt_vars
        /\ UNCHANGED cli_vars
NextDecay == \E lesson \in 0..(DecayLevelCount - 1) : DecayingUpdate(lesson)
SpecDecay == InitDecay /\ [][NextDecay]_vars

\* A run of the decaying strategy whose first update attempts the VeryEasy
\* lesson, leaving QWritten there, and whose later updates attempt the
\* lessons of the next DecayLevelCount levels only.
InitUntouched == InitRun("DecayingQValues", 0, UntouchedIterations)
FirstUpdate == iteration = 0 /\ DecayingUpdate(0)
LaterUpdate ==
    /\ iteration > 0
    /\ \E lesson \in 1..DecayLevelCount : DecayingUpdate(lesson)
NextUntouched ==
    \/ FirstUpdate
    \/ LaterUpdate
SpecUntouched == InitUntouched /\ [][NextUntouched]_vars

\* A run of the decaying strategy on a table already learned: the Medium
\* and the Hard lesson each never attempted (value 0) or attempted, with a
\* value of 0.2, 0.5 or 0.9; the current lesson is one of the two.  The run
\* starts at an attempt, or at the selection that follows an update (the
\* current level then attempted, the update's tag any of the four).
LevelSamples ==
    { [ attempted |-> FALSE, value |-> F32(0) ],
      [ attempted |-> TRUE, value |-> Lit(2, 10) ],
      [ attempted |-> TRUE, value |-> Lit(5, 10) ],
      [ attempted |-> TRUE, value |-> Lit(9, 10) ] }
InitReinforce ==
    \E medium \in LevelSamples, hard \in LevelSamples,
       first_lesson \in { 2, 3 }, start \in { "attempt", "choose" },
       tag \in Mastery :
        /\ start = "attempt" => tag = "Full"
        /\ start = "choose" =>
              IF first_lesson = 2 THEN medium.attempted ELSE hard.attempted
        /\ strategy = "DecayingQValues"
        /\ q_table =
               Insert(Insert(SeededQTable, << 2, "Medium" >>, medium.value),
                      << 3, "Hard" >>, hard.value)
        /\ has_been_attempted =
               [ d \in DifficultyLevel |->
                   IF d = "Medium" THEN medium.attempted
                   ELSE IF d = "Hard" THEN hard.attempted
                   ELSE FALSE ]
        /\ consecutive_attempts = [ d \in DifficultyLevel |-> 0 ]
        /\ non_attempt_counter = [ d \in DifficultyLevel |-> 0 ]
        /\ decay_counter = [ d \in DifficultyLevel |-> InitialDecayCounter(d) ]
        /\ decay_events = [ d \in DifficultyLevel |-> 0 ]
        /\ lesson_plans = << first_lesson >>
        /\ num_iterations = ReinforceIterations
        /\ iteration = 0
        /\ pc = start
        /\ lesson_result = None
        /\ mastery_level = IF start = "choose" THEN Some(tag) ELSE None
        /\ last_update = None
        /\ selected = None
        /\ explores = 0
        /\ learner_ids = << >>
        /\ learners = << >>
        /\ draws = << >>
        /\ values = << >>
        /\ iteration_jsons = << >>
        /\ NoTraits
        /\ NoCli
        /\ NoAttempt

\* update under the decaying strategy on the current lesson's state: the
\* tag and the adjusted reward, the bookkeeping of the attempted level, the
\* next state by the next-difficulty rule, the Q-update clamped at 1, the
\* non-attempt counters and the decay.
UpdateReinforce ==
    /\ pc = "update"
    /\ \E state \in { CurrentState } :
       \E clamped \in { ClampedReward(state, lesson_result[1]) } :
       \E mastery \in { MasteryOf(clamped) } :
       \E rand \in CoinSamples(strategy, Some(mastery)) :
       \E next \in ChooseNextDifficultyDecaying(q_table, state, Some(mastery),
                                                rand < Lit(6, 10)) :
       \E next_max \in { NextMax(q_table, next[1]) } :
       \E new_value \in { Min(NewValue(q_table[state],
                                       AdjustedReward(clamped, mastery),
                                       next_max), F32(1)) } :
       \E written \in { Insert(q_table, state, new_value) } :
       \E counted \in { [ d \in DifficultyLevel |->
                            NonAttemptCounterAfter(non_attempt_counter,
                                                   has_been_attempted,
                                                   state[2], d) ] } :
       \E fired \in { { d \in DifficultyLevel :
                          DecayFires(counted, decay_counter, d) } } :
            /\ has_been_attempted' =
                   [ has_been_attempted EXCEPT ![state[2]] = TRUE ]
            /\ consecutive_attempts' =
                   UpdateConsecutiveAttempts(consecutive_attempts, state[2])
            /\ q_table' =
                   [ k \in DOMAIN written |->
                       IF k[2] \in fired
                       THEN Decayed(written[k], decay_counter[k[2]])
                       ELSE written[k] ]
            /\ decay_counter' =
                   [ d \in DifficultyLevel |->
                       IF d \in fired
                       THEN DecayCounterAfterDecay(decay_counter, d)
                       ELSE decay_counter[d] ]
            /\ non_attempt_counter' =
                   [ d \in DifficultyLevel |->
                       IF d \in fired THEN 0 ELSE counted[d] ]
            /\ decay_events' =
                   [ d \in DifficultyLevel |->
                       IF d \in fired THEN decay_events[d] + 1
                       ELSE decay_events[d] ]
            /\ mastery_level' = Some(mastery)
            /\ last_update' =
                   Some([ state |-> state, fired |-> fired,
                          mastery_level |-> Some(mastery),
                          next_state |-> next[1],
                          next_difficulty |-> next[2],
                          next_max |-> next_max,
                          new_value |-> new_value ])
    /\ pc' = "choose"
    /\ UNCHANGED << strategy, lesson_plans, num_iterations, iteration,
                    lesson_result, selected, explores >>
    /\ UNCHANGED trait_vars
    /\ UNCHANGED attempt_vars
    /\ UNCHANGED cli_vars
    /\ UNCHANGED driver_vars

\* The selection of the decaying strategy, then Learner::set_current_lesson.
SelectReinforce ==
    /\ pc = "choose"
    /\ \E rand_value \in RandSamples,
          rand \in CoinSamples(strategy, mastery_level) :
         LET explore == rand_value < epsilon
             coin == rand < Lit(6, 10)
         IN  /\ \E action \in EpsilonGreedyActionDecaying(
                                  q_table, has_been_attempted, CurrentState,
                                  mastery_level, explore, coin) :
                  /\ selected' = Some([ state |-> CurrentState,
                                        mastery_level |-> mastery_level,
                                        explore |-> explore,
                                        action |-> action ])
                  /\ lesson_plans' = Append(lesson_plans, action[1])
             /\ explores' = IF explore THEN explores + 1 ELSE explores
    /\ iteration' = iteration + 1
    /\ pc' = IF iteration + 1 = num_iterations THEN "done" ELSE "attempt"
    /\ lesson_result' = None
    /\ UNCHANGED << strategy, q_table, consecutive_attempts, num_iterations,
                    mastery_level, last_update >>
    /\ UNCHANGED decay_vars
    /\ UNCHANGED trait_vars
    /\ UNCHANGED attempt_vars
    /\ UNCHANGED cli_vars
    /\ UNCHANGED driver_vars

NextReinforce ==
    \/ PerfectLessonAttempt
    \/ WrongLessonAttempt
    \/ UpdateReinforce
    \/ SelectReinforce
SpecReinforce == InitReinforce /\ [][NextReinforce]_vars

\* ------------------------------------------------------------ learners
\* The learner-id list, and a learner with its Q-table as registered: the
\* table seeded, the first plan holding the first lesson of the module.
LearnerIds == 1..LearnerCount
InitialLearner ==
    [ q_table |-> SeededQTable, lesson_plans |-> << 0 >>, done |-> 0 ]
\* The random draws of one iteration of one learner: the time sample (the
\* band's lower bound, or its upper bound less one), the questions that
\* take a second attempt, the Competent draw of update, the epsilon draw
\* and the Competent draw of the selection.
DrawSamples ==
    { [ slow |-> FALSE, retried |-> 1, rand_update |-> Lit(9, 10),
        rand_value |-> Lit(1, 10), rand_select |-> Lit(1, 10) ],
      [ slow |-> TRUE, retried |-> NumQuestions, rand_update |-> Lit(1, 10),
        rand_value |-> Lit(9, 10), rand_select |-> Lit(9, 10) ] }
RECURSIVE DrawScripts(_)
DrawScripts(n) ==
    IF n = 0 THEN { << >> }
    ELSE { << d >> \o t : d \in DrawSamples, t \in DrawScripts(n - 1) }
\* simulate_lesson_attempt with the given draws.
LessonResultWithDraws(qt, lesson, draw) ==
    LET level == get_difficulty_level(lesson)
        state == << lesson, level >>
        current_q_value == IF state \in DOMAIN qt THEN qt[state] ELSE F32(0)
        certain == correctness_factor(level, current_q_value) >= F32(1)
        time_taken == IF draw.slow THEN TimeBand(level)[2] - 1
                      ELSE TimeBand(level)[1]
    IN  LessonResultOf(lesson, time_taken,
                       [ q \in get_questions(lesson) |->
                           IF ~certain /\ q <= draw.retried THEN 2 ELSE 1 ])
\* The loop body of run_q_learning_simulation for one learner with the
\* given draws: attempt, update, selection, set_current_lesson.  The draws
\* given, the outcomes are one.
LearnerIterations(strat, learner, draw) ==
    LET qt == learner.q_table
        lesson == learner.lesson_plans[Len(learner.lesson_plans)]
        state == << lesson, get_difficulty_level(lesson) >>
    IN  UNION { UNION { UNION { UNION { UNION {
            { [ q_table |-> updated,
                lesson_plans |-> Append(learner.lesson_plans, action[1]),
                done |-> learner.done + 1 ] :
              action \in EpsilonGreedyAction(
                             updated, strat, state, u.mastery_level,
                             draw.rand_value < epsilon,
                             draw.rand_select < Lit(6, 10)) } :
            updated \in { Insert(qt, state, u.new_value) } } :
            u \in { UpdateLocals(qt, strat, state, result, next) } } :
            next \in { CHOOSE n \in ChooseNextDifficulty(
                                         qt, strat, state, mastery,
                                         draw.rand_update < Lit(6, 10)) :
                           TRUE } } :
            mastery \in { UpdateMastery(strat, state, result) } } :
            result \in { LessonResultWithDraws(qt, lesson, draw) } }
LearnerIteration(strat, learner, draw) ==
    CHOOSE after \in LearnerIterations(strat, learner, draw) : TRUE
\* A learner processed alone through the iterations of a script of draws.
RECURSIVE RunAlone(_, _, _)
RunAlone(strat, learner, script) ==
    IF script = << >> THEN learner
    ELSE RunAlone(strat, LearnerIteration(strat, learner, Head(script)),
                  Tail(script))
\* Faulty map: the learners' Q-tables are one shared table.
WithSharedTable(all, id, learner) ==
    [ j \in DOMAIN all |->
        IF j = id THEN learner
        ELSE [ all[j] EXCEPT !.q_table = learner.q_table ] ]
\* learners_with_q_tables.get_mut(learner_id): the entry of one learner
\* replaced.
WithLearner(all, id, learner) == [ all EXCEPT ![id] = learner ]

\* A driver that processes the learners in any order, each learner's
\* iterations drawing from its own script.
InitLearners ==
    \E strat \in { "Strategy1", "Strategy2" },
       scripts \in [ LearnerIds -> DrawScripts(MaxIterations) ] :
        /\ InitEngine(strat, 0, MaxIterations)
        /\ learner_ids = [ i \in LearnerIds |-> i ]
        /\ learners = [ id \in LearnerIds |-> InitialLearner ]
        /\ draws = scripts
        /\ values = << >>
        /\ iteration_jsons = << >>
        /\ NoTraits
        /\ NoCli
        /\ NoAttempt
IterateLearner(id) ==
    /\ learners[id].done < num_iterations
    /\ learners' =
           WithLearner(learners, id,
                       LearnerIteration(strategy, learners[id],
                                        draws[id][learners[id].done + 1]))
    /\ UNCHANGED << strategy, q_table, consecutive_attempts, lesson_plans,
                    num_iterations, iteration, pc, lesson_result,
                    mastery_level, last_update, selected, explores,
                    learner_ids, draws, values, iteration_jsons >>
    /\ UNCHANGED decay_vars
    /\ UNCHANGED trait_vars
    /\ UNCHANGED attempt_vars
    /\ UNCHANGED cli_vars
NextLearners == \E id \in LearnerIds : IterateLearner(id)
SpecLearners == InitLearners /\ [][NextLearners]_vars

\* ------------------------------------------------------------ driver
\* The orders in which a list can name the learners.
LearnerIdLists ==
    { l \in [ LearnerIds -> LearnerIds ] :
        \A i, j \in LearnerIds : l[i] = l[j] => i = j }
\* Faulty snapshot entry: the Grandmaster key is left out.
WriteQTableWithoutLast(learner_id, qt, level) ==
    [ learner_id |-> learner_id,
      values |-> [ d \in DifficultyLevel \ { "Grandmaster" } |->
                     IF << IndexOf(d), d >> \in DOMAIN qt
                     THEN qt[<< IndexOf(d), d >>] ELSE F32(0) ],
      difficulty_level |-> level ]
\* write_q_table_to_file: the entry of one learner in a snapshot, the
\* Q-value of lessons[i] at the i-th difficulty under that difficulty's
\* name, 0.0 where the table has no such key.
WriteQTable(learner_id, qt, level) ==
    [ learner_id |-> learner_id,
      values |-> [ d \in DifficultyLevel |->
                     IF << IndexOf(d), d >> \in DOMAIN qt
                     THEN qt[<< IndexOf(d), d >>] ELSE F32(0) ],
      difficulty_level |-> level ]
\* run_q_learning_simulation on the learners as registered, for any list of
\* their ids and any iteration count up to the bound.
InitDriver ==
    \E strat \in { "Strategy1", "Strategy2" }, ids \in LearnerIdLists,
       iterations \in 1..MaxIterations :
        /\ InitEngine(strat, 0, iterations)
        /\ learner_ids = ids
        /\ learners = [ id \in LearnerIds |-> InitialLearner ]
        /\ draws = [ id \in LearnerIds |-> << >> ]
        /\ values = << >>
        /\ iteration_jsons = << >>
        /\ NoTraits
        /\ NoCli
        /\ NoAttempt
\* The body of the inner loop for the next learner of the list.
ProcessLearner ==
    /\ pc = "attempt"
    /\ iteration < num_iterations
    /\ Len(values) < Len(learner_ids)
    /\ \E draw \in DrawSamples :
         LET learner_id == learner_ids[Len(values) + 1]
             learner == learners[learner_id]
             lesson == learner.lesson_plans[Len(learner.lesson_plans)]
         IN  \E after \in LearnerIterations(strategy, learner, draw) :
               /\ learners' = WithLearner(learners, learner_id, after)
               /\ draws' = [ draws EXCEPT ![learner_id] = Append(@, draw) ]
               /\ values' = Append(values,
                                   WriteQTable(learner_id, after.q_table,
                                               get_difficulty_level(lesson)))
    /\ UNCHANGED << strategy, q_table, consecutive_attempts, lesson_plans,
                    num_iterations, iteration, pc, lesson_result,
                    mastery_level, last_update, selected, explores,
                    learner_ids, iteration_jsons >>
    /\ UNCHANGED decay_vars
    /\ UNCHANGED trait_vars
    /\ UNCHANGED attempt_vars
    /\ UNCHANGED cli_vars
\* The end of the outer loop's body: the snapshot of the iteration pushed.
PushIteration ==
    /\ pc = "attempt"
    /\ iteration < num_iterations
    /\ Len(values) = Len(learner_ids)
    /\ iteration_jsons' =
           Append(iteration_jsons,
                  [ iteration |-> iteration + 1, values |-> values ])
    /\ values' = << >>
    /\ iteration' = iteration + 1
    /\ UNCHANGED << strategy, q_table, consecutive_attempts, lesson_plans,
                    num_iterations, pc, lesson_result, mastery_level,
                    last_update, selected, explores, learner_ids, learners,
                    draws >>
    /\ UNCHANGED decay_vars
    /\ UNCHANGED trait_vars
    /\ UNCHANGED attempt_vars
    /\ UNCHANGED cli_vars
\* After the loop: the results written, the map of learners returned.
WriteResults ==
    /\ pc = "attempt"
    /\ iteration = num_iterations
    /\ pc' = "done"
    /\ UNCHANGED << strategy, q_table, consecutive_attempts, lesson_plans,
                    num_iterations, iteration, lesson_result, mastery_level,
                    last_update, selected, explores >>
    /\ UNCHANGED decay_vars
    /\ UNCHANGED trait_vars
    /\ UNCHANGED attempt_vars
    /\ UNCHANGED cli_vars
    /\ UNCHANGED driver_vars
NextDriver ==
    \/ ProcessLearner
    \/ PushIteration
    \/ WriteResults
\* The driver is one sequential function: it keeps taking its next step.
SpecDriver == InitDriver /\ [][NextDriver]_vars /\ WF_vars(NextDriver)

\* The same driver, the body of its inner loop taken statement by
\* statement: the attempt, the update with the snapshot entry, the
\* selection with set_current_lesson.  The learner in progress is the next
\* of the list until its snapshot entry is pushed, the last pushed after.
\* Faulty lookup: the lesson of the first plan.
FirstLessonOf(learner) == learner.lesson_plans[1]
\* Learner::get_current_lesson: the lesson of the latest plan.
CurrentLessonOf(learner) == learner.lesson_plans[Len(learner.lesson_plans)]
\* simulate_lesson_attempt(&lesson, q_table.clone()).
LearnerAttempt ==
    /\ pc = "attempt"
    /\ iteration < num_iterations
    /\ Len(values) < Len(learner_ids)
    /\ \E draw \in DrawSamples :
       \E learner_id \in { learner_ids[Len(values) + 1] } :
       \E learner \in { learners[learner_id] } :
            /\ lesson_result' =
                   Some(LessonResultWithDraws(learner.q_table,
                                              CurrentLessonOf(learner), draw))
            /\ draws' = [ draws EXCEPT ![learner_id] = Append(@, draw) ]
    /\ pc' = "update"
    /\ UNCHANGED << strategy, q_table, consecutive_attempts, lesson_plans,
                    num_iterations, iteration, mastery_level, last_update,
                    selected, explores, learner_ids, learners, values,
                    iteration_jsons >>
    /\ UNCHANGED decay_vars
    /\ UNCHANGED trait_vars
    /\ UNCHANGED attempt_vars
    /\ UNCHANGED cli_vars
\* update_q_table, then write_q_table_to_file and values.push.
LearnerUpdate ==
    /\ pc = "update"
    /\ \E learner_id \in { learner_ids[Len(values) + 1] } :
       \E learner \in { learners[learner_id] } :
       \E lesson \in { CurrentLessonOf(learner) } :
       \E state \in { << lesson, get_difficulty_level(lesson) >> } :
       \E draw \in { draws[learner_id][Len(draws[learner_id])] } :
       \E mastery \in { UpdateMastery(strategy, state, lesson_result[1]) } :
       \E next \in ChooseNextDifficulty(learner.q_table, strategy, state,
                                        mastery,
                                        draw.rand_update < Lit(6, 10)) :
       \E u \in { UpdateLocals(learner.q_table, strategy, state,
                               lesson_result[1], next) } :
       \E updated \in { Insert(learner.q_table, state, u.new_value) } :
            /\ learners' =
                   WithLearner(learners, learner_id,
                               [ learner EXCEPT !.q_table = updated ])
            /\ mastery_level' = u.mastery_level
            /\ last_update' = Some(u)
            /\ values' = Append(values,
                                WriteQTable(learner_id, updated, state[2]))
    /\ pc' = "choose"
    /\ UNCHANGED << strategy, q_table, consecutive_attempts, lesson_plans,
                    num_iterations, iteration, lesson_result, selected,
                    explores, learner_ids, draws, iteration_jsons >>
    /\ UNCHANGED decay_vars
    /\ UNCHANGED trait_vars
    /\ UNCHANGED attempt_vars
    /\ UNCHANGED cli_vars
\* choose_lesson_based_on_q_table, then learner.set_current_lesson.
LearnerSelect ==
    /\ pc = "choose"
    /\ \E learner_id \in { learner_ids[Len(values)] } :
       \E learner \in { learners[learner_id] } :
       \E lesson \in { CurrentLessonOf(learner) } :
       \E state \in { << lesson, get_difficulty_level(lesson) >> } :
       \E draw \in { draws[learner_id][Len(draws[learner_id])] } :
       \E action \in EpsilonGreedyAction(learner.q_table, strategy, state,
                                         mastery_level,
                                         draw.rand_value < epsilon,
                                         draw.rand_select < Lit(6, 10)) :
            /\ learners' =
                   WithLearner(learners, learner_id,
                               [ learner EXCEPT
                                   !.lesson_plans = Append(@, action[1]),
                                   !.done = @ + 1 ])
            /\ selected' = Some([ state |-> state,
                                  mastery_level |-> mastery_level,
                                  explore |-> draw.rand_value < epsilon,
                                  action |-> action ])
    /\ pc' = "attempt"
    /\ lesson_result' = None
    /\ UNCHANGED << strategy, q_table, consecutive_attempts, lesson_plans,
                    num_iterations, iteration, mastery_level, last_update,
                    explores, learner_ids, draws, values, iteration_jsons >>
    /\ UNCHANGED decay_vars
    /\ UNCHANGED trait_vars
    /\ UNCHANGED attempt_vars
    /\ UNCHANGED cli_vars
NextLoop ==
    \/ LearnerAttempt
    \/ LearnerUpdate
    \/ LearnerSelect
    \/ PushIteration
    \/ WriteResults
SpecLoop == InitDriver /\ [][NextLoop]_vars

\* ------------------------------------------------------------ lesson plans
\* LessonPlan::new and add_lesson: a plan is its vector of lessons, empty
\* when new.
NewLessonPlan == << >>
add_lesson(plan, lesson) == Append(plan, lesson)
\* Learner::add_lesson_plan
add_lesson_plan(plans, plan) == Append(plans, plan)
\* Faulty setter: the lesson is added to the latest plan.
set_current_lesson_in_latest_plan(plans, lesson) ==
    IF plans = << >> THEN << add_lesson(NewLessonPlan, lesson) >>
    ELSE [ plans EXCEPT ![Len(plans)] = add_lesson(@, lesson) ]
\* Learner::set_current_lesson
set_current_lesson(plans, lesson) ==
    add_lesson_plan(plans, add_lesson(NewLessonPlan, lesson))
\* Learner::get_current_lesson on a history whose latest plan has a lesson.
current_lesson(plans) == plans[Len(plans)][1]
\* Plans a caller of add_lesson_plan may pass besides those of one lesson.
PlanSamples == { << 0, 1 >>, << 2, 3, 4 >> }

\* A learner's history under its two writers; here lesson_plans holds each
\* plan as its vector of lessons.
InitPlans ==
    /\ InitTable("Strategy1", MaxPlans)
    /\ lesson_plans = << >>
    /\ learner_ids = << >>
    /\ learners = << >>
    /\ draws = << >>
    /\ values = << >>
    /\ iteration_jsons = << >>
    /\ NoTraits
    /\ NoCli
    /\ NoAttempt
AddLessonPlan(plan) ==
    /\ Len(lesson_plans) < num_iterations
    /\ lesson_plans' = add_lesson_plan(lesson_plans, plan)
    /\ UNCHANGED << strategy, q_table, consecutive_attempts, num_iterations,
                    iteration, pc, lesson_result, mastery_level, last_update,
                    selected, explores >>
    /\ UNCHANGED decay_vars
    /\ UNCHANGED trait_vars
    /\ UNCHANGED attempt_vars
    /\ UNCHANGED cli_vars
    /\ UNCHANGED driver_vars
SetCurrentLesson(lesson) ==
    /\ Len(lesson_plans) < num_iterations
    /\ lesson_plans' = set_current_lesson(lesson_plans, lesson)
    /\ UNCHANGED << strategy, q_table, consecutive_attempts, num_iterations,
                    iteration, pc, lesson_result, mastery_level, last_update,
                    selected, explores >>
    /\ UNCHANGED decay_vars
    /\ UNCHANGED trait_vars
    /\ UNCHANGED attempt_vars
    /\ UNCHANGED cli_vars
    /\ UNCHANGED driver_vars
NextPlans ==
    \/ \E plan \in PlanSamples : AddLessonPlan(plan)
    \/ \E lesson \in Lesson : SetCurrentLesson(lesson)
SpecPlans == InitPlans /\ [][NextPlans]_vars

\* ------------------------------------------------------------ traits
Communicability == { "Verbal", "NonVerbal" }
CommunicationLevel == { "High", "Medium", "Low" }
MotorSkills == { "VeryHigh", "High", "Medium", "Low" }
\* calculate_alignment: the two match tables, self's value first.
communication_level_alignment(self_level, other_level) ==
    CASE self_level = "High" -> F32(1)
      [] self_level = "Medium" ->
            IF other_level = "High" THEN Lit(5, 10) ELSE F32(1)
      [] self_level = "Low" ->
            (CASE other_level = "High" -> F32(0)
               [] other_level = "Medium" -> Lit(5, 10)
               [] other_level = "Low" -> F32(1))
motor_skills_alignment(self_skills, other_skills) ==
    CASE self_skills = "Low" ->
            (CASE other_skills = "VeryHigh" -> F32(0)
               [] other_skills = "High" -> Lit(25, 100)
               [] other_skills = "Medium" -> Lit(5, 10)
               [] other_skills = "Low" -> F32(1))
      [] self_skills = "Medium" ->
            (CASE other_skills = "VeryHigh" -> Lit(25, 100)
               [] other_skills = "High" -> Lit(5, 10)
               [] OTHER -> F32(1))
      [] self_skills = "High" ->
            IF other_skills = "VeryHigh" THEN Lit(5, 10) ELSE F32(1)
      [] self_skills = "VeryHigh" -> F32(1)
\* calculate_alignment: the quotient of the two i32 spans, converted to
\* f32 after the division, at most 1.0.  The spans are not negative here.
AttentionSpanAlignment(self_span, other_span) ==
    Min(F32(self_span \div other_span), F32(1))
\* calculate_alignment: the locals of one call.
CalculateAlignment(self, other) ==
    LET attention_span_alignment ==
            AttentionSpanAlignment(self.attention_span, other.attention_span)
        equal_communicability ==
            Cardinality({ i \in DOMAIN self.communicability :
                            \E j \in DOMAIN other.communicability :
                                other.communicability[j] = self.communicability[i] })
        level_alignment ==
            communication_level_alignment(self.communication_level,
                                          other.communication_level)
        communicability_alignment ==
            Mul(Ratio(equal_communicability, Len(other.communicability)),
                level_alignment)
        skills_alignment ==
            motor_skills_alignment(self.motor_skills, other.motor_skills)
    IN  [ attention_span_alignment |-> attention_span_alignment,
          communicability_alignment |-> communicability_alignment,
          communication_level_alignment |-> level_alignment,
          motor_skills_alignment |-> skills_alignment,
          overall_alignment |->
              Mul(attention_span_alignment, Lit(4, 10))
              + Mul(communicability_alignment, Lit(2, 10))
              + Mul(level_alignment, Lit(2, 10))
              + Mul(skills_alignment, Lit(2, 10)) ]
\* ASDTraits a caller can build: spans in steps of five, communicability
\* vectors without repetition.
AttentionSpans == { 5 * k : k \in 0..AttentionSpanSteps }
ASDTraits ==
    [ attention_span : AttentionSpans,
      communicability : { << "Verbal" >>, << "NonVerbal" >>,
                          << "Verbal", "NonVerbal" >> },
      communication_level : CommunicationLevel,
      motor_skills : MotorSkills ]

\* One call of calculate_alignment on any learner traits and any target
\* traits of positive attention span.
InitAlignment ==
    /\ InitEngine("Strategy1", 0, 0)
    /\ learner_ids = << >>
    /\ learners = << >>
    /\ draws = << >>
    /\ values = << >>
    /\ iteration_jsons = << >>
    /\ NoCli
    /\ NoAttempt
    /\ traits \in { t \in [ self : ASDTraits, other : ASDTraits ] :
                       t.other.attention_span > 0 }
    /\ alignment = None
CalculateAlignmentCall ==
    /\ alignment = None
    /\ alignment' = Some(CalculateAlignment(traits.self, traits.other))
    /\ UNCHANGED << strategy, q_table, consecutive_attempts, lesson_plans,
                    num_iterations, iteration, pc, lesson_result,
                    mastery_level, last_update, selected, explores, traits >>
    /\ UNCHANGED decay_vars
    /\ UNCHANGED driver_vars
    /\ UNCHANGED cli_vars
    /\ UNCHANGED attempt_vars
NextAlignment == CalculateAlignmentCall
SpecAlignment == InitAlignment /\ [][NextAlignment]_vars

\* ------------------------------------------------------------ main
\* A line is the sequence of its characters.
Whitespace == { " ", "\t", "\r", "\n" }
\* str::trim
RECURSIVE TrimStart(_)
TrimStart(line) ==
    IF line # << >> /\ Head(line) \in Whitespace THEN TrimStart(Tail(line))
    ELSE line
RECURSIVE TrimEnd(_)
TrimEnd(line) ==
    IF line # << >> /\ line[Len(line)] \in Whitespace
    THEN TrimEnd(SubSeq(line, 1, Len(line) - 1))
    ELSE line
Trim(line) == TrimEnd(TrimStart(line))
\* Faulty test: only the capital letter quits.
IsQuitCapitalOnly(token) == token = << "Q" >>
\* main: input == "Q" || input == "q"
IsQuit(token) == token = << "Q" >> \/ token = << "q" >>
\* main: the test that passes "1" to "5"; input.parse::<u8>() of those.
IsStrategy(token) ==
    ~(token # << "1" >> /\ token # << "2" >> /\ token # << "3" >>
      /\ token # << "4" >> /\ token # << "5" >>)
ParseU8(token) ==
    CASE token = << "1" >> -> 1
      [] token = << "2" >> -> 2
      [] token = << "3" >> -> 3
      [] token = << "4" >> -> 4
      [] token = << "5" >> -> 5
\* One call simulate::run_simulation_strategy_<n>(iterations), and the
\* line written after it; the elapsed milliseconds are left out.
Simulation(n, iterations) == [ strategy |-> n, iterations |-> iterations ]
StatisticsLine(n) ==
    IF n = 4 THEN "Strategy 4 Actions" ELSE
    CASE n = 1 -> "Strategy 1" [] n = 2 -> "Strategy 2" [] n = 3 -> "Strategy 3"
\* Choice 5: five rounds of the four strategies at each iteration count.
SweepIterations == << 1000, 5000, 10000, 20000 >>
SweepRepetitions == 5
SweepRuns ==
    [ i \in 1..(Len(SweepIterations) * SweepRepetitions * 4) |->
        Simulation(((i - 1) % 4) + 1,
                   Some(SweepIterations[((i - 1) \div (4 * SweepRepetitions)) + 1])) ]
SweepLines ==
    [ i \in 1..Len(SweepRuns) |->
        CASE SweepRuns[i].strategy = 1 -> "Strategy 1"
          [] SweepRuns[i].strategy = 2 -> "Strategy 2"
          [] SweepRuns[i].strategy = 3 -> "Strategy 3"
          [] SweepRuns[i].strategy = 4 -> "Strategy 4" ]
\* Lines standard input can deliver; the empty line is the end of input.
InputSamples ==
    { << "1", "\n" >>, << "2", "\n" >>, << "3", "\n" >>, << "4", "\n" >>,
      << "5", "\n" >>, << "Q", "\n" >>, << "q", "\n" >>,
      << " ", "3", " ", "\r", "\n" >>, << "6", "\n" >>, << "1", "2", "\n" >>,
      << "x", "\n" >>, << "Q", "1", "\n" >>, << "\n" >>, << >> }
LinesToRead ==
    IF Len(simulations) < MaxSimulations THEN InputSamples
    ELSE { line \in InputSamples : ~IsStrategy(Trim(line)) }

InitCli ==
    /\ InitEngine("Strategy1", 0, 0)
    /\ learner_ids = << >>
    /\ learners = << >>
    /\ draws = << >>
    /\ values = << >>
    /\ iteration_jsons = << >>
    /\ NoTraits
    /\ NoCli
    /\ NoAttempt
\* One turn of the loop of main on a line read.
MenuTurn(line) ==
    /\ cli = "prompt"
    /\ input' = Some(line)
    /\ LET token == Trim(line)
       IN  IF IsQuit(token)
           THEN /\ cli' = "exited"
                /\ UNCHANGED << simulations, statistics >>
           ELSE IF ~IsStrategy(token)
           THEN UNCHANGED << cli, simulations, statistics >>
           ELSE IF ParseU8(token) = 5
           THEN /\ simulations' = simulations \o SweepRuns
                /\ statistics' = statistics \o SweepLines
                /\ UNCHANGED cli
           ELSE /\ simulations' =
                       Append(simulations, Simulation(ParseU8(token), None))
                /\ statistics' =
                       Append(statistics, StatisticsLine(ParseU8(token)))
                /\ UNCHANGED cli
    /\ UNCHANGED << strategy, q_table, consecutive_attempts, lesson_plans,
                    num_iterations, iteration, pc, lesson_result,
                    mastery_level, last_update, selected, explores >>
    /\ UNCHANGED decay_vars
    /\ UNCHANGED driver_vars
    /\ UNCHANGED trait_vars
    /\ UNCHANGED attempt_vars
\* read_line returns an error (the bytes read are not UTF-8, or the read
\* fails) and expect panics.
ReadLineFails ==
    /\ cli = "prompt"
    /\ cli' = "panicked"
    /\ UNCHANGED << strategy, q_table, consecutive_attempts, lesson_plans,
                    num_iterations, iteration, pc, lesson_result,
                    mastery_level, last_update, selected, explores, input,
                    simulations, statistics >>
    /\ UNCHANGED decay_vars
    /\ UNCHANGED driver_vars
    /\ UNCHANGED trait_vars
    /\ UNCHANGED attempt_vars
NextCli ==
    \/ \E line \in LinesToRead : MenuTurn(line)
    \/ ReadLineFails
SpecCli == InitCli /\ [][NextCli]_vars

\* ------------------------------------------------------------ properties
\* The index of the difficulty of a (lesson, difficulty) pair.
IndexOfState(state) == IndexOf(state[2])
LastIndex == Len(difficulties) - 1

\* C1: after every update, whatever the strategy, every Q-value of the
\* table lies in [-1, 1].
C1_QValuesWithinUnitInterval ==
    \A k \in DOMAIN q_table : F32(-1) <= q_table[k] /\ q_table[k] <= F32(1)
\* An update has written a value above 1.
C1_AboveOne ==
    /\ last_update # None
    /\ last_update[1].new_value > F32(1)
    /\ q_table[last_update[1].state] = last_update[1].new_value
\* An update has written a value below -1.
C1_BelowMinusOne ==
    /\ last_update # None
    /\ last_update[1].new_value < F32(-1)
    /\ q_table[last_update[1].state] = last_update[1].new_value

\* C2: on the seeded table, a selection (epsilon_greedy_action on either
\* branch, and choose_next_difficulty as update calls it) returns a key of
\* the Q-table whose difficulty is one of the eight levels and is the
\* returned lesson's own difficulty.
IsSeededKey(action) ==
    /\ action \in DOMAIN q_table
    /\ action[2] \in DifficultyLevel
    /\ IndexOf(action[2]) \in 0..LastIndex
    /\ action[2] = get_difficulty_level(action[1])
C2_SelectionReturnsTableKey ==
    /\ selected # None => IsSeededKey(selected[1].action)
    /\ (pc = "update" /\ ~UnwrapsNone(strategy, UpdateMastery(strategy, CurrentState, lesson_result[1])))
          => \A coin \in BOOLEAN :
                \A next \in ChooseNextDifficulty(
                                q_table, strategy, CurrentState,
                                UpdateMastery(strategy, CurrentState,
                                              lesson_result[1]), coin) :
                    IsSeededKey(next)
\* Both branches have returned: an exploring selection that moved the
\* learner, then an exploiting one.
C2_BothBranchesSelected ==
    /\ selected # None
    /\ ~selected[1].explore
    /\ explores > 0
    /\ Len(lesson_plans) = 3
    /\ lesson_plans[2] # lesson_plans[1]

\* C3 as stated: under the first strategy, the difficulty selected after an
\* update has index min(current + 1, 7).
C3_BaseSelectionAlwaysAdvances ==
    (strategy = "Strategy1" /\ selected # None)
        => IndexOfState(selected[1].action)
             = Min(IndexOfState(selected[1].state) + 1, LastIndex)
\* C3: under the first strategy, the next-difficulty rule of update and an
\* exploring selection give index min(current + 1, 7), and an exploiting
\* selection gives the current index.
C3_BaseAdvancesOnlyWhenExploring ==
    /\ (strategy = "Strategy1" /\ last_update # None)
          => get_difficulty_level(last_update[1].next_state)
               = difficulties[Min(IndexOfState(last_update[1].state) + 1,
                                  LastIndex) + 1]
    /\ (strategy = "Strategy1" /\ selected # None)
          => IndexOfState(selected[1].action)
               = IF selected[1].explore
                 THEN Min(IndexOfState(selected[1].state) + 1, LastIndex)
                 ELSE IndexOfState(selected[1].state)
\* An exploiting selection under the first strategy, below the top level.
C3_BaseExploited ==
    /\ strategy = "Strategy1"
    /\ selected # None
    /\ ~selected[1].explore
    /\ IndexOfState(selected[1].state) < LastIndex
    /\ selected[1].action[2] = selected[1].state[2]

\* C4: for the strategies other than the first, the next-difficulty rule at
\* index i with tag m gives min(i + 1, 7) for Full, i or min(i + 1, 7) for
\* Competent, i for Basic and max(i - 1, 0) for None (so Grandmaster with
\* Full and VeryEasy with None stay where they are).
RuleAllows(i, m, n) ==
    CASE m = "Full" -> n = Min(i + 1, LastIndex)
      [] m = "Competent" -> n \in { i, Min(i + 1, LastIndex) }
      [] m = "Basic" -> n = i
      [] OTHER -> n = Max(i - 1, 0)
C4_NextDifficultyRule ==
    /\ pc = "attempt" =>
          LET i == IndexOfState(CurrentState)
          IN  \A strat \in Strategy \ { "Strategy1" }, m \in Mastery,
                 coin \in BOOLEAN :
                   RuleAllows(i, m, NextIndex(strat, i, Some(m), coin))
    /\ (strategy # "Strategy1" /\ last_update # None)
          => RuleAllows(IndexOfState(last_update[1].state),
                        last_update[1].mastery_level[1],
                        IndexOf(get_difficulty_level(last_update[1].next_state)))
    /\ (strategy # "Strategy1" /\ selected # None /\ selected[1].explore)
          => RuleAllows(IndexOfState(selected[1].state),
                        selected[1].mastery_level[1],
                        IndexOfState(selected[1].action))
\* An update at Grandmaster tagged Full whose next state is Grandmaster,
\* followed by an exploring selection that stays there.
C4_FullStaysAtGrandmaster ==
    /\ strategy # "Strategy1"
    /\ last_update # None
    /\ last_update[1].state[2] = "Grandmaster"
    /\ last_update[1].mastery_level = Some("Full")
    /\ get_difficulty_level(last_update[1].next_state) = "Grandmaster"
    /\ selected # None
    /\ selected[1].explore
    /\ selected[1].mastery_level = Some("Full")
    /\ selected[1].state[2] = "Grandmaster"
    /\ selected[1].action[2] = "Grandmaster"

\* C5: update classifies mastery exactly when the strategy is not the first
\* one; it then tags Full from 0.8, Competent from 0.7, Basic from 0.5 and
\* None below, and uses 1.0, r + 0.1, r and r - 0.1 as the reward; for the
\* first strategy there is no tag and the reward is the clamped one.
C5_ClassifiesUnlessBase ==
    pc = "update" =>
        LET r == ClampedReward(CurrentState, lesson_result[1])
            tag == MasteryLevel(strategy, r)
            used == FinalReward(strategy, r)
        IN  IF strategy = "Strategy1"
            THEN tag = None /\ used = r
            ELSE /\ tag # None
                 /\ (tag = Some("Full")) <=> (r >= Lit(8, 10))
                 /\ (tag = Some("Competent"))
                       <=> (Lit(7, 10) <= r /\ r < Lit(8, 10))
                 /\ (tag = Some("Basic"))
                       <=> (Lit(5, 10) <= r /\ r < Lit(7, 10))
                 /\ (tag = Some("None")) <=> (r < Lit(5, 10))
                 /\ used = CASE tag = Some("Full") -> F32(1)
                             [] tag = Some("Competent") -> r + Lit(1, 10)
                             [] tag = Some("Basic") -> r
                             [] OTHER -> r - Lit(1, 10)
\* C5 for the strategies the source does classify or leave alone.
C5_HoldsForFirstTwoStrategies ==
    strategy \in { "Strategy1", "Strategy2" } => C5_ClassifiesUnlessBase
\* The third strategy's update ends in the unwrap of the missing tag.
C5_ThirdStrategyPanics ==
    strategy = "Strategy3" /\ pc = "panicked"

\* C6: an update with no incorrect attempt, no hint and the time at the
\* lower bound of the level's band, on a table with Q[s] < 1, is tagged Full
\* when mastery is classified, and strictly increases Q[s] without taking
\* it above 1.
IsPerfect(state, result) ==
    /\ get_total_incorrect_attempts(result) = 0
    /\ get_total_hints_requested(result) = 0
    /\ result.time_taken = TimeBand(state[2])[1]
PerfectUpdateDone ==
    /\ pc = "choose"
    /\ last_update # None
    /\ IsPerfect(last_update[1].state, lesson_result[1])
    /\ last_update[1].old_value < F32(1)
C6_PerfectResultRaisesQWithinOne ==
    PerfectUpdateDone =>
        /\ ClassifiesMastery(strategy) => mastery_level = Some("Full")
        /\ q_table[last_update[1].state] > last_update[1].old_value
        /\ q_table[last_update[1].state] <= F32(1)
\* The part of C6 that the source satisfies: Full, and a strict increase.
C6_PerfectResultIsFullAndRaisesQ ==
    PerfectUpdateDone =>
        /\ ClassifiesMastery(strategy) => mastery_level = Some("Full")
        /\ q_table[last_update[1].state] > last_update[1].old_value
\* A perfect update that took Q[s] from below 1 to above 1.
C6_PerfectUpdateAboveOne ==
    PerfectUpdateDone /\ q_table[last_update[1].state] > F32(1)

\* C7: in every state of a simulation run the Q-table has an entry for
\* every (lesson, lesson's difficulty) pair of the module, all 0 before the
\* first update, and the learner's current lesson is the lesson of one of
\* those entries.
SeededKeys == { << l, get_difficulty_level(l) >> : l \in Lesson }
C7_SeededEntriesKept ==
    /\ SeededKeys \subseteq DOMAIN q_table
    /\ last_update = None => \A k \in SeededKeys : q_table[k] = F32(0)
    /\ get_current_lesson \in Lesson
    /\ CurrentState \in SeededKeys
    /\ CurrentState \in DOMAIN q_table
\* The end of a run that updated the table and moved the learner.
C7_RunEndedOnAnotherLesson ==
    /\ pc = "done"
    /\ iteration = num_iterations
    /\ q_table # SeededQTable
    /\ get_current_lesson # lesson_plans[1]

\* The pending update would end in a panic of choose_next_difficulty.
UpdateWouldPanic ==
    /\ pc = "update"
    /\ \E coin \in BOOLEAN :
          ChooseNextDifficultyPanics(
              q_table, strategy, CurrentState,
              UpdateMastery(strategy, CurrentState, lesson_result[1]), coin)

\* C8 as stated: in the scripted perfect run, whatever the draws, the
\* learner is at Grandmaster after the last iteration and
\* Q[(VeryEasy lesson, VeryEasy)] is greater than 0.
VeryEasyState == << 0, "VeryEasy" >>
C8_PerfectRunEndsAtGrandmaster ==
    pc = "done" =>
        /\ CurrentState[2] = "Grandmaster"
        /\ q_table[VeryEasyState] > F32(0)
\* C8: in the scripted perfect run the update never panics, the difficulty
\* index is the number of selections that explored, capped at 7 (so the run
\* ends at Grandmaster exactly when at least 7 selections explored), and
\* Q[(VeryEasy lesson, VeryEasy)] is greater than 0 from the first update on.
C8_PerfectRunAdvancesPerExploration ==
    /\ ~UpdateWouldPanic
    /\ IndexOfState(CurrentState) = Min(explores, LastIndex)
    /\ pc = "done" => (CurrentState[2] = "Grandmaster" <=> explores >= LastIndex)
    /\ last_update # None => q_table[VeryEasyState] > F32(0)
\* The perfect run ended at Grandmaster, after 7 or more explorations.
C8_EndedAtGrandmaster ==
    /\ pc = "done"
    /\ iteration = num_iterations
    /\ explores >= LastIndex
    /\ CurrentState[2] = "Grandmaster"
    /\ q_table[VeryEasyState] > F32(0)

AtMostOneCounting ==
    \A d, e \in DifficultyLevel :
        (consecutive_attempts[d] > 0 /\ e # d) => consecutive_attempts[e] = 0
UpdateCountsAttempt ==
    UpdateQTable =>
        \A d \in DifficultyLevel :
            consecutive_attempts'[d] =
                IF d = CurrentState[2] THEN consecutive_attempts[d] + 1 ELSE 0
C10_OneLevelCounts == [](AtMostOneCounting) /\ [][UpdateCountsAttempt]_vars
\* The second update of a run, at another level than the first one: the
\* first level's counter is back to 0.
C10_ResetAfterLevelChange ==
    /\ pc = "choose"
    /\ iteration = 1
    /\ CurrentState[2] # get_difficulty_level(lesson_plans[1])
    /\ consecutive_attempts[CurrentState[2]] = 1
    /\ consecutive_attempts[get_difficulty_level(lesson_plans[1])] = 0

\* C11: decay_counter[d] starts at its initial value, never increases and
\* never goes below 0; once it is 0 no update decays the Q-values of level
\* d; the decay events of level d number at most the initial counter.
DecayCounterWithinInitial ==
    \A d \in DifficultyLevel :
        /\ iteration = 0 => decay_counter[d] = InitialDecayCounter(d)
        /\ decay_counter[d] >= 0
        /\ decay_counter[d] <= InitialDecayCounter(d)
        /\ decay_events[d] <= InitialDecayCounter(d)
        /\ decay_events[d] + decay_counter[d] = InitialDecayCounter(d)
DecayCounterStep ==
    \A d \in DifficultyLevel :
        /\ decay_counter'[d] <= decay_counter[d]
        /\ decay_counter[d] = 0 =>
              /\ decay_events'[d] = decay_events[d]
              /\ d \notin last_update'[1].fired
              /\ \A k \in DOMAIN q_table :
                    (k[2] = d /\ k # last_update'[1].state)
                        => q_table'[k] = q_table[k]
C11_DecayCounterOnlyFalls ==
    [](DecayCounterWithinInitial) /\ [][DecayCounterStep]_vars
\* VeryEasy has used up its decay events and has again gone its threshold
\* of updates without an attempt.
C11_DecayExhausted ==
    /\ decay_counter["VeryEasy"] = 0
    /\ decay_events["VeryEasy"] = InitialDecayCounter("VeryEasy")
    /\ non_attempt_counter["VeryEasy"] >= DecayThreshold("VeryEasy")

\* C12: for a difficulty never attempted, non_attempt_counter stays 0, its
\* Q-values are never multiplied and its decay_counter never decremented,
\* however many updates are performed.
C12_NoDecayBeforeFirstAttempt ==
    \A d \in DifficultyLevel :
        ~has_been_attempted[d] =>
            /\ non_attempt_counter[d] = 0
            /\ decay_events[d] = 0
            /\ decay_counter[d] = InitialDecayCounter(d)
            /\ last_update # None => d \notin last_update[1].fired
            /\ \A k \in DOMAIN q_table : k[2] = d => q_table[k] = SeededQTable[k]
\* Easy is still unattempted after more updates than its threshold.
C12_UnattemptedPastThreshold ==
    /\ ~has_been_attempted["Easy"]
    /\ iteration > DecayThreshold("Easy")
    /\ non_attempt_counter["Easy"] = 0

\* C13: an iteration step of one learner changes only that learner's
\* Q-table and lesson history, so whatever the order in which the learners
\* are processed, each learner ends with the Q-table and the history it
\* gets when processed alone with the same draws.
OnlyOneLearnerChanges ==
    \E id \in LearnerIds :
        \A other \in LearnerIds \ { id } : learners'[other] = learners[other]
AllLearnersDone ==
    \A id \in LearnerIds : learners[id].done = num_iterations
LearnersAsIfAlone ==
    \A id \in LearnerIds :
        learners[id] =
            RunAlone(strategy, InitialLearner,
                     SubSeq(draws[id], 1, learners[id].done))
C13_LearnersIndependent ==
    [](LearnersAsIfAlone) /\ [][OnlyOneLearnerChanges]_vars
\* All learners are done, two of them with different Q-tables and
\* different histories.
C13_LearnersEndedApart ==
    /\ AllLearnersDone
    /\ \E a, b \in LearnerIds :
          /\ learners[a].q_table # learners[b].q_table
          /\ learners[a].lesson_plans # learners[b].lesson_plans

\* C14: two runs on the same inputs (the same strategy, the same seeded
\* Q-table, the same first lesson) end with the same Q-table and the same
\* lesson history. The learners of the driver are such runs; the code
\* takes every draw from the thread's generator, which no input seeds.
C14_SameInputsSameOutcome ==
    AllLearnersDone =>
        \A a, b \in LearnerIds :
            /\ learners[a].q_table = learners[b].q_table
            /\ learners[a].lesson_plans = learners[b].lesson_plans
\* Two runs on the same inputs differ after their first iteration.
C14_ApartAfterOneIteration ==
    \E a, b \in LearnerIds :
        /\ learners[a].done = 1
        /\ learners[b].done = 1
        /\ learners[a].q_table # learners[b].q_table

\* C15: the driver given an iteration count and a learner-id list ends,
\* and when it has ended it has run exactly that many iterations and holds
\* exactly that many snapshots, numbered 1, 2, ... in order, each with one
\* entry per learner in the order of the list, each entry with one value
\* for each of the eight difficulty keys. Snapshots pushed earlier have the
\* same shape.
SnapshotShape(k) ==
    /\ iteration_jsons[k].iteration = k
    /\ Len(iteration_jsons[k].values) = Len(learner_ids)
    /\ \A i \in 1..Len(learner_ids) :
          /\ iteration_jsons[k].values[i].learner_id = learner_ids[i]
          /\ DOMAIN iteration_jsons[k].values[i].values = DifficultyLevel
          /\ Cardinality(DifficultyLevel) = 8
DriverShape ==
    /\ Len(iteration_jsons) = iteration
    /\ iteration <= num_iterations
    /\ \A k \in 1..Len(iteration_jsons) : SnapshotShape(k)
    /\ pc = "done" => iteration = num_iterations
HistoryAppended ==
    /\ Len(lesson_plans') = Len(lesson_plans) + 1
    /\ SubSeq(lesson_plans', 1, Len(lesson_plans)) = lesson_plans
SetCurrentLessonAddsPlanOf(l) ==
    lesson_plans' = set_current_lesson(lesson_plans, l) =>
        /\ HistoryAppended
        /\ lesson_plans'[Len(lesson_plans')] = << l >>
        /\ current_lesson(lesson_plans') = l
C16_HistoryAppendOnly ==
    /\ [][HistoryAppended]_vars
    /\ [][\A l \in Lesson : SetCurrentLessonAddsPlanOf(l)]_vars
\* The current lesson was set after a plan of two lessons, which is kept.
C16_SetAfterLongerPlan ==
    /\ Len(lesson_plans) = 3
    /\ lesson_plans[2] = << 0, 1 >>
    /\ lesson_plans[3] = << 5 >>
    /\ current_lesson(lesson_plans) = 5

\* C17: for learner traits and target traits of positive attention span
\* and non-empty communicability, calculate_alignment lies in [0, 1] and
\* its attention-span component is min(L.attention_span /
\* T.attention_span, 1.0), the quotient taken as a real number.
AlignmentInUnitInterval ==
    alignment # None =>
        /\ alignment[1].overall_alignment >= F32(0)
        /\ alignment[1].overall_alignment <= F32(1)
C17_AlignmentUsesRealRatio ==
    alignment # None =>
        /\ AlignmentInUnitInterval
        /\ alignment[1].attention_span_alignment =
               Min(Ratio(traits.self.attention_span,
                         traits.other.attention_span), F32(1))
\* A learner whose span is half the target's gets 0 for the component.
C17_HalfSpanCountsAsZero ==
    /\ alignment # None
    /\ traits.self.attention_span = 5
    /\ traits.other.attention_span = 10
    /\ alignment[1].attention_span_alignment = F32(0)

\* C18: a turn of the menu loop on a line whose text, surrounding blanks
\* set aside, is 1, 2, 3 or 4 runs that strategy once and prompts again; on
\* Q or q it ends the loop; on any text other than 1 to 5, Q and q it runs
\* nothing, writes no statistics line and prompts again.  As stated, every
\* step out of the prompt is such a turn and the loop ends only on Q or q.
\* The text of a line: what is left between its leading and trailing blanks.
TextOf(line) ==
    CHOOSE t \in { SubSeq(line, i, j) : i \in 1..(Len(line) + 1),
                                        j \in 0..Len(line) } :
        \E i \in 1..(Len(line) + 1), j \in 0..Len(line) :
            /\ i <= j + 1
            /\ t = SubSeq(line, i, j)
            /\ \A k \in 1..Len(line) :
                  (k < i \/ k > j) => line[k] \in Whitespace
            /\ t # << >> => line[i] \notin Whitespace /\ line[j] \notin Whitespace
StrategyTexts == << << "1" >>, << "2" >>, << "3" >>, << "4" >> >>
TurnAsStated ==
    /\ input' # None
    /\ LET text == TextOf(input'[1])
       IN  CASE text \in { << "Q" >>, << "q" >> } ->
                    /\ cli' = "exited"
                    /\ UNCHANGED << simulations, statistics >>
             [] text \in { StrategyTexts[n] : n \in 1..4 } ->
                    /\ cli' = "prompt"
                    /\ Len(simulations') = Len(simulations) + 1
                    /\ SubSeq(simulations', 1, Len(simulations)) = simulations
                    /\ text = StrategyTexts[simulations'[Len(simulations')].strategy]
                    /\ Len(statistics') = Len(statistics) + 1
             [] text = << "5" >> -> cli' = "prompt"
             [] OTHER ->
                    /\ cli' = "prompt"
                    /\ UNCHANGED << simulations, statistics >>
EndedOnQuit ==
    cli # "prompt" => input # None /\ TextOf(input[1]) \in { << "Q" >>, << "q" >> }
FailedRead ==
    /\ cli' = "panicked"
    /\ UNCHANGED << input, simulations, statistics >>
GreatestOrZero(vs) == IF vs = {} THEN F32(0) ELSE SetMax(vs)
UpdateWrote(next_max) ==
    LET u == last_update'[1]
        old == IF u.state \in DOMAIN q_table THEN q_table[u.state] ELSE F32(0)
    IN  /\ DOMAIN q_table' = DOMAIN q_table \cup { u.state }
        /\ \A k \in DOMAIN q_table \ { u.state } : q_table'[k] = q_table[k]
        /\ q_table'[u.state] =
               old + Mul(Lit(75, 100),
                         u.reward + Mul(Lit(25, 100), next_max) - old)
UpdateStep == pc = "update" /\ pc' = "choose"
C19_NextMaxOverDifficulty ==
    [][UpdateStep =>
         UpdateWrote(GreatestOrZero(
             { q_table[k] :
                 k \in { j \in DOMAIN q_table :
                           j[2] = last_update'[1].next_difficulty } }))]_vars
\* Amended: next_max is the greatest value before the update among the
\* entries whose lesson is the lesson of s', whatever their difficulty.
C19_NextMaxOverLesson ==
    [][UpdateStep =>
         UpdateWrote(GreatestOrZero(
             { q_table[k] :
                 k \in { j \in DOMAIN q_table :
                           j[1] = last_update'[1].next_state } }))]_vars
\* An update has met two entries of the next difficulty with different
\* values, and took next_max from the one of the next lesson, the lesser.
C19_TwoEntriesAtNextDifficulty ==
    /\ pc = "choose"
    /\ last_update # None
    /\ last_update[1].next_difficulty = InsertedKey[2]
    /\ \E k \in DOMAIN q_table :
          /\ k[2] = InsertedKey[2]
          /\ k # last_update[1].state
          /\ q_table[k] > last_update[1].next_max

\* C20: a selection that exploits returns an entry of the current state's
\* difficulty whose Q-value is the greatest among the entries of that
\* difficulty, so the difficulty selected is the current one; it falls
\* back to the next-difficulty rule only on a table with no entry of the
\* current difficulty.
ExploitedBest ==
    (pc = "choose" /\ pc' # "choose" /\ ~selected'[1].explore) =>
        LET action == selected'[1].action
        IN  /\ action \in DOMAIN q_table
            /\ action[2] = CurrentState[2]
            /\ \A k \in DOMAIN q_table :
                  k[2] = CurrentState[2] => q_table[k] <= q_table[action]
\* The policy on the table without its entries of one difficulty, called
\* at that difficulty.
WithoutDifficulty(qt, level) ==
    [ k \in { j \in DOMAIN qt : j[2] # level } |-> qt[k] ]
FallsBackOnlyWithoutEntry ==
    (pc = "choose" /\ ~UnwrapsNone(strategy, mastery_level)) =>
        \A coin \in BOOLEAN :
            /\ EpsilonGreedyAction(
                   WithoutDifficulty(q_table, CurrentState[2]), strategy,
                   CurrentState, mastery_level, FALSE, coin)
               = ChooseNextDifficulty(
                     WithoutDifficulty(q_table, CurrentState[2]), strategy,
                     CurrentState, mastery_level, coin)
            /\ \A action \in EpsilonGreedyAction(q_table, strategy, CurrentState,
                                                 mastery_level, FALSE, coin) :
                  action[2] = CurrentState[2]
            /\ EpsilonGreedyAction(q_table, strategy, CurrentState,
                                   mastery_level, FALSE, coin) # {}
C20_ExploitStaysAtBestOfDifficulty ==
    [][ExploitedBest]_vars /\ [](FallsBackOnlyWithoutEntry)
\* An exploiting selection chose between two entries of the current
\* difficulty with different values.
C20_ExploitedBetweenTwoLessons ==
    /\ selected # None
    /\ ~selected[1].explore
    /\ pc = "attempt"
    /\ \E k \in DOMAIN q_table :
          /\ k[2] = selected[1].action[2]
          /\ q_table[k] < q_table[selected[1].action]
    /\ \E coin \in BOOLEAN :
          ChooseNextDifficulty(
              WithoutDifficulty(q_table, selected[1].state[2]), strategy,
              selected[1].state, selected[1].mastery_level, coin) # {}

\* C21: under the decaying strategies, an update after whose bookkeeping
\* non_attempt_counter[d] >= threshold[d] with decay_counter[d] = k > 0
\* multiplies every Q[(lesson, d)] by 1/k, sets decay_counter[d] to k - 1
\* and non_attempt_counter[d] to 0, and leaves the decay counter and the
\* Q-values of every other level as the bookkeeping and the Q-update left
\* them; after one more update than its threshold without an attempt, the
\* VeryEasy value has been halved exactly once and decay_counter[VeryEasy]
\* has gone from 2 to 1.
DecayStep ==
    LET state == last_update'[1].state
    IN  \A d \in DifficultyLevel :
            LET counted ==
                    IF d = state[2] THEN 0
                    ELSE IF has_been_attempted[d]
                         THEN non_attempt_counter[d] + 1
                         ELSE non_attempt_counter[d]
                k == decay_counter[d]
            IN  IF counted >= DecayThreshold(d) /\ k > 0
                THEN /\ \A key \in DOMAIN q_table' :
                           key[2] = d =>
                               q_table'[key] = Mul(q_table[key], Lit(1, k))
                     /\ decay_counter'[d] = k - 1
                     /\ non_attempt_counter'[d] = 0
                ELSE /\ \A key \in DOMAIN q_table' :
                           (key[2] = d /\ key # state) =>
                               q_table'[key] = q_table[key]
                     /\ decay_counter'[d] = k
                     /\ non_attempt_counter'[d] = counted
UntouchedDecaysOnce ==
    LET threshold == DecayThreshold("VeryEasy")
        very_easy == << 0, "VeryEasy" >>
    IN  /\ (iteration >= 1 /\ iteration < 1 + threshold) =>
              /\ q_table[very_easy] = QWritten
              /\ decay_counter["VeryEasy"] = 2
              /\ decay_events["VeryEasy"] = 0
        /\ (iteration >= 1 + threshold /\ iteration < 1 + 2 * threshold) =>
              /\ q_table[very_easy] = Mul(QWritten, Lit(5, 10))
              /\ decay_counter["VeryEasy"] = 1
              /\ decay_events["VeryEasy"] = 1
C21_DecayMultipliesByRate ==
    [](UntouchedDecaysOnce) /\ [][DecayStep]_vars
\* One more update than the VeryEasy threshold has passed since VeryEasy
\* was attempted, and another attempted level has not decayed.
C21_OneUpdatePastThreshold ==
    /\ iteration = DecayThreshold("VeryEasy") + 2
    /\ decay_counter["VeryEasy"] = 1
    /\ \E d \in DifficultyLevel \ { "VeryEasy" } :
          has_been_attempted[d] /\ decay_events[d] = 0

\* C22: under the decaying strategies, a selection whose exploration draw
\* succeeds while some difficulty d has has_been_attempted[d] and its
\* greatest Q-value <= 0.5 returns a lesson of such a level; only when there
\* is no such level does it follow the next-difficulty rule.  With Hard at
\* 0.2, Medium at 0.9 and the current lesson at Medium it returns a lesson
\* at Hard.
ExploreReinforcesWeak ==
    (pc = "choose" /\ pc' # "choose" /\ selected'[1].explore) =>
        LET action == selected'[1].action
            weak ==
                { d \in DifficultyLevel :
                    /\ has_been_attempted[d]
                    /\ \E k \in DOMAIN q_table : k[2] = d
                    /\ \A k \in DOMAIN q_table :
                          k[2] = d => q_table[k] <= Lit(5, 10) }
        IN  /\ action \in DOMAIN q_table
            /\ IF weak # {} THEN action[2] \in weak
               ELSE RuleAllows(IndexOfState(CurrentState), mastery_level[1],
                               IndexOfState(action))
            /\ ( /\ CurrentState = << 2, "Medium" >>
                 /\ q_table[<< 2, "Medium" >>] = Lit(9, 10)
                 /\ q_table[<< 3, "Hard" >>] = Lit(2, 10)
                 /\ \A d \in DifficultyLevel :
                       has_been_attempted[d] <=> d \in { "Medium", "Hard" } )
               => action[2] = "Hard"
C22_ExploreReinforcesWeakLevel == [][ExploreReinforcesWeak]_vars
\* From Medium at 0.9 with the tag Basic, an exploring selection has
\* returned the Hard lesson, Hard being attempted and at 0.2.
C22_SelectedWeakHard ==
    /\ selected # None
    /\ selected[1].explore
    /\ selected[1].state = << 2, "Medium" >>
    /\ selected[1].mastery_level = Some("Basic")
    /\ selected[1].action = << 3, "Hard" >>
    /\ pc = "attempt"
    /\ has_been_attempted["Hard"]
    /\ q_table[<< 2, "Medium" >>] = Lit(9, 10)
    /\ q_table[<< 3, "Hard" >>] = Lit(2, 10)

\* C23: under the decaying strategies, whenever the greatest Q-value at
\* the current difficulty is <= 0.5 the next-difficulty rule returns the
\* current difficulty, whatever the mastery tag, so that a learner never
\* advances to a higher level from a level whose greatest Q-value is <= 0.5.
CurrentLevelWeak ==
    /\ \E k \in DOMAIN q_table : k[2] = CurrentState[2]
    /\ \A k \in DOMAIN q_table :
          k[2] = CurrentState[2] => q_table[k] <= Lit(5, 10)
RuleKeepsWeakLevel ==
    (pc # "done" /\ CurrentLevelWeak) =>
        \A m \in Mastery, coin \in BOOLEAN :
            ChooseNextDifficultyDecaying(q_table, CurrentState, Some(m), coin)
                = { k \in DOMAIN q_table : k[2] = CurrentState[2] }
UpdateKeepsWeakLevel ==
    (pc = "update" /\ pc' = "choose" /\ CurrentLevelWeak) =>
        /\ last_update'[1].next_difficulty = CurrentState[2]
        /\ get_difficulty_level(last_update'[1].next_state) = CurrentState[2]
NeverAdvancesFromWeak ==
    (pc = "choose" /\ pc' # "choose" /\ CurrentLevelWeak) =>
        IndexOfState(selected'[1].action) <= IndexOfState(CurrentState)
LeavesWeakOnlyForWeak ==
    (pc = "choose" /\ pc' # "choose" /\ CurrentLevelWeak) =>
        LET action == selected'[1].action
        IN  \/ action[2] = CurrentState[2]
            \/ /\ selected'[1].explore
               /\ has_been_attempted[action[2]]
               /\ \A k \in DOMAIN q_table :
                     k[2] = action[2] => q_table[k] <= Lit(5, 10)
InProgress ==
    IF pc = "choose" THEN learner_ids[Len(values)]
    ELSE learner_ids[Len(values) + 1]
LatestLesson(id) == learners[id].lesson_plans[learners[id].done + 1]
BodyInOrder ==
    /\ pc = "attempt" => pc' \in { "attempt", "update", "done" }
    /\ pc = "update" => pc' = "choose"
    /\ pc = "choose" => pc' = "attempt"
    /\ pc' \in { "update", "choose" } =>
          /\ InProgress' = InProgress
          /\ \A id \in LearnerIds \ { InProgress } :
                learners'[id] = learners[id]
    /\ pc = "choose" =>
          \A id \in LearnerIds \ { InProgress } : learners'[id] = learners[id]
    /\ pc' = "update" =>
          /\ lesson_result'[1].difficulty_level =
                 get_difficulty_level(LatestLesson(InProgress))
          /\ learners' = learners
    /\ pc = "update" =>
          /\ last_update'[1].state =
                 << LatestLesson(InProgress),
                    lesson_result[1].difficulty_level >>
          /\ \A k \in DOMAIN learners[InProgress].q_table :
                k # last_update'[1].state =>
                    learners'[InProgress].q_table[k]
                        = learners[InProgress].q_table[k]
          /\ learners'[InProgress].q_table[last_update'[1].state]
                 = last_update'[1].new_value
          /\ learners'[InProgress].lesson_plans
                 = learners[InProgress].lesson_plans
          /\ mastery_level' = last_update'[1].mastery_level
    /\ pc = "choose" =>
          /\ selected'[1].state = last_update[1].state
          /\ selected'[1].mastery_level = last_update[1].mastery_level
          /\ learners'[InProgress].lesson_plans =
                 Append(learners[InProgress].lesson_plans,
                        selected'[1].action[1])
          /\ learners'[InProgress].done = learners[InProgress].done + 1
          /\ learners'[InProgress].lesson_plans[learners'[InProgress].done + 1]
                 = selected'[1].action[1]
          /\ learners'[InProgress].q_table = learners[InProgress].q_table
OnePlanPerIteration ==
    \A id \in LearnerIds :
        /\ Len(learners[id].lesson_plans) = learners[id].done + 1
        /\ learners[id].done \in { iteration, iteration + 1 }
C24_LoopBodyInOrder == [](OnePlanPerIteration) /\ [][BodyInOrder]_vars
\* In the second iteration the second learner of the list is about to be
\* updated for the Easy lesson, which the first iteration selected for it,
\* while the first learner has stayed at the VeryEasy lesson.
C24_SecondIterationOnSelectedLesson ==
    /\ iteration = 1
    /\ pc = "update"
    /\ Len(values) = 1
    /\ learners[InProgress].done = 1
    /\ learners[InProgress].lesson_plans = << 0, 1 >>
    /\ lesson_result[1].difficulty_level = "Easy"
    /\ selected[1].action[1] = 0
    /\ learners[learner_ids[1]].lesson_plans = << 0, 0, 0 >>

\* C25: for every lesson result and difficulty, the incorrect-attempts
\* sub-reward and the hints sub-reward computed by update lie in [0, 1],
\* and the time sub-reward is at most 1: it is 1 when the time taken is at
\* most the band's lower bound and never larger for a longer time.
C25_SubRewardsWithinUnit ==
    pc = "choose" =>
        LET result == lesson_result[1]
            level == last_update[1].state[2]
        IN  /\ incorrect_attempts_reward(result) >= F32(0)
            /\ incorrect_attempts_reward(result) <= F32(1)
            /\ hints_requested_reward(result) >= F32(0)
            /\ hints_requested_reward(result) <= F32(1)
            /\ time_taken_reward(level, result.time_taken) <= F32(1)
            /\ result.time_taken <= TimeBand(level)[1] =>
                  time_taken_reward(level, result.time_taken) = F32(1)
\* An update of the VeryEasy state for a result of 6 seconds whose two
\* questions took five attempts each: the time sub-reward is 1.3, the
\* incorrect-attempts sub-reward 1 - 8/2 = -3.
C25_QuickAndOftenWrong ==
    /\ pc = "choose"
    /\ last_update[1].state[2] = "VeryEasy"
    /\ lesson_result[1].time_taken = TimeBand("VeryEasy")[1] + 1
    /\ time_taken_reward("VeryEasy", lesson_result[1].time_taken) = Lit(13, 10)
    /\ incorrect_attempts_reward(lesson_result[1]) < F32(0)
    /\ \A q \in get_questions(0) :
          lesson_result[1].attempted_questions[q].total_attempts = 5

\* C26: simulate_lesson_attempt terminates for every lesson and Q-table:
\* the correctness factor is always positive, so with fair draws the retry
\* loop of each question ends; it returns a LessonResult of the lesson's
\* difficulty with one QuestionAttempt per question, each with
\* total_attempts >= 1 and incorrect_attempts = total_attempts - 1.
AttemptResultShape ==
    pc = "update" =>
        LET result == lesson_result[1]
            n == Cardinality(get_questions(get_current_lesson))
        IN  /\ result.difficulty_level = get_difficulty_level(get_current_lesson)
            /\ result.total_questions = n
            /\ Len(result.attempted_questions) = n
            /\ \A q \in 1..n :
                  /\ result.attempted_questions[q].total_attempts >= 1
                  /\ result.attempted_questions[q].incorrect_attempts
                         = result.attempted_questions[q].total_attempts - 1
C26_AttemptTerminatesWithShape ==
    /\ [](CurrentFactor > F32(0))
    /\ [](AttemptResultShape)
    /\ <>(pc = "update")
\* The attempt has returned on a table whose entry for the lesson is
\* negative, one question answered at once and one after MaxAttempts
\* incorrect draws.
C26_ReturnedAfterRetries ==
    /\ pc = "update"
    /\ lesson_result # None
    /\ CurrentState \in DOMAIN q_table
    /\ q_table[CurrentState] < F32(0)
    /\ \E p, q \in DOMAIN lesson_result[1].attempted_questions :
          /\ lesson_result[1].attempted_questions[p].total_attempts = 1
          /\ lesson_result[1].attempted_questions[q].total_attempts
                 = MaxAttempts + 1

\* C27: an internal consistency violation is fatal and not absorbed: an
\* update on a state that has no Q-table entry, or the lookup of a next
\* difficulty of which the table holds no lesson, ends in an error, returns
\* no next lesson and leaves the Q-table unchanged; no entry is created
\* with a default value.
BreachIsFatal ==
    /\ (pc = "update" /\ CurrentState \notin DOMAIN q_table) =>
          pc' = "panicked"
    /\ pc' = "panicked" =>
          /\ q_table' = q_table
          /\ lesson_plans' = lesson_plans
          /\ selected' = selected
    /\ DOMAIN q_table' = DOMAIN q_table
C27_BreachIsFatal == [][BreachIsFatal]_vars
\* The part that holds: a lookup that finds no lesson of the next
\* difficulty panics, in update before the table is written and in the
\* selection before the current lesson is set.
FailedLookupIsFatal ==
    /\ (pc = "update" /\ pc' = "choose") =>
          \E k \in DOMAIN q_table : k[2] = last_update'[1].next_difficulty
    /\ (pc = "choose" /\ pc' \in { "attempt", "done" }) =>
          selected'[1].action \in DOMAIN q_table
    /\ pc' = "panicked" =>
          /\ q_table' = q_table
          /\ lesson_plans' = lesson_plans
          /\ selected' = selected
C27_FailedLookupIsFatal == [][FailedLookupIsFatal]_vars
\* The first update ran on a state the table had no entry for, and the
\* table now holds that entry.
C27_MissingEntryCreated ==
    /\ pc = "choose"
    /\ iteration = 0
    /\ last_update # None
    /\ last_update[1].old_value = F32(0)
    /\ last_update[1].state \in DOMAIN q_table
    /\ DOMAIN q_table = DOMAIN SeededQTable
    /\ q_table[last_update[1].state] = last_update[1].new_value

\* C28: under the first two strategies update(s, result) on a seeded state
\* s changes only the value stored at key s: the set of keys and the value
\* of every other entry are unchanged; the action selection and the
\* simulated attempt change nothing in the table.
UpdateWritesOnlyState ==
    /\ pc = "update" =>
          /\ DOMAIN q_table' = DOMAIN q_table
          /\ \A k \in DOMAIN q_table \ { CurrentState } :
                q_table'[k] = q_table[k]
    /\ pc # "update" => q_table' = q_table
C28_UpdateWritesOnlyState == [][UpdateWritesOnlyState]_vars
\* Two updates and two selections have run: exactly the updated keys differ
\* from the seeded table.
C28_OnlyUpdatedKeysDiffer ==
    /\ pc = "done"
    /\ iteration = MaxIterations
    /\ explores >= 1
    /\ CurrentState # last_update[1].state
    /\ q_table[last_update[1].state] # F32(0)
    /\ \E k \in DOMAIN q_table : k # last_update[1].state /\ q_table[k] # F32(0)
    /\ \E k \in DOMAIN q_table : q_table[k] = F32(0)

\* C29: under the first two strategies, whatever the draws, the difficulty
\* index of the current lesson differs by at most 1 between two consecutive
\* iterations.
LevelMovesByAtMostOne ==
    \E before \in { IndexOf(CurrentState[2]) } :
    \E after \in { IndexOf(get_difficulty_level(
                       lesson_plans'[Len(lesson_plans')])) } :
        /\ after - before <= 1
        /\ before - after <= 1
C29_LevelMovesByAtMostOne == [][LevelMovesByAtMostOne]_vars
\* A run that moved up one level after its first iteration and down one
\* level after its second.
C29_MovedUpThenDown ==
    /\ iteration = MaxIterations
    /\ Len(lesson_plans) = MaxIterations + 1
    /\ IndexOf(get_difficulty_level(lesson_plans[2])) =
           IndexOf(get_difficulty_level(lesson_plans[1])) + 1
    /\ IndexOf(get_difficulty_level(lesson_plans[3])) =
           IndexOf(get_difficulty_level(lesson_plans[2])) - 1

\* C30: under the first strategy with epsilon > 0, a learner starting at
\* VeryEasy whose run takes the exploring branch often enough (once per
\* level below Grandmaster) eventually reaches Grandmaster, and from then on
\* its current difficulty is Grandmaster in every later iteration.
AtGrandmaster == CurrentState[2] = difficulties[Len(difficulties)]
C30_EventuallyAlwaysGrandmaster ==
    (epsilon > 0 /\ <>(explores >= LastIndex)) => <>[]AtGrandmaster
\* The run reached Grandmaster before its last iterations and then both
\* explored and exploited there.
C30_StayedAtGrandmaster ==
    /\ pc = "done"
    /\ explores = LastIndex + 1
    /\ iteration = explores + 1
    /\ selected[1].explore
    /\ selected[1].state[2] = difficulties[Len(difficulties)]
    /\ AtGrandmaster
    /\ get_difficulty_level(lesson_plans[Len(lesson_plans) - 2]) =
           difficulties[Len(difficulties)]

====
